---- MODULE Spec2Model ----
(***************************************************************************)
(* The Iskra memory stores.                                                *)
(*                                                                         *)
(* Memory (monoliths/iskra_projects_monolith.py) keeps two JSONL logs, the *)
(* Archive and the Shadow log, and offers add_archive, add_shadow,         *)
(* reindex, dedupe, compact and upgrade on them.  MemoryManager            *)
(* (src/iskra_core/memory_manager.py) is the second implementation, with   *)
(* append_archive and append_shadow on logs of its own.                    *)
(*                                                                         *)
(* A log file is the sequence of its non-blank lines; a line is the set of *)
(* "key":value members json.dumps writes for one object.  Timestamps are   *)
(* counted in days (add_days adds whole days), confidences in hundredths   *)
(* (0.3 is 30), so that the tier boundaries of the code are exact.         *)
(***************************************************************************)
EXTENDS Integers, Sequences, FiniteSets, TLC

VARIABLES
    arcFile,    \* Memory.arc: the lines of ARCHIVE/main_archive.jsonl
    shFile,     \* Memory.sh:  the lines of SHADOW/main_shadow.jsonl
    now,        \* the clock iso_now() reads, in days
    last,       \* the most recent call: its name, outcome, return value and the logs it found
    issued,     \* per kind, the ids the add_* calls have returned so far
    mmArchive,  \* the lines of the file at MemoryManager.archive_path
    mmShadow,   \* the lines of the file at MemoryManager.shadow_path
    fsys,       \* the directory of a log seen step by step: names, and the files they name
    wr,         \* a Jsonl.write_all in progress: its position and locals
    rd,         \* a Jsonl.read in progress: its position and locals
    cyc,        \* the add_shadow calls in progress, one per caller
    outFiles,   \* the files sync and export have written, by path
    last_active, \* FacetActivationEngine.last_active
    phase       \* PhaseManager.phase

\* The two files of a MemoryManager.
mm == <<mmArchive, mmShadow>>

\* What belongs to calls followed statement by statement.
steps == <<fsys, wr, rd, cyc>>

vars == <<arcFile, shFile, now, last, issued, mmArchive, mmShadow, fsys, wr, rd, cyc,
          outFiles, last_active, phase>>

\* ------------------------------------------------------------------ bounds
MaxLen == 3

MaxInit == 3

\* The days the clock passes through.
Days == 1..2

\* ------------------------------------------------------------ Python values
\* Python's None (no modelled text equals it).
None == "<None>"

\* The empty dict of keyword results.
NoRet == [none |-> TRUE]

\* -------------------------------------------------------------- timestamps
\* A timestamp matching ISO is a day number >= 0; BadIso is a string the ISO
\* pattern rejects (the empty string, which also sorts before every timestamp).
BadIso == -1

ISO_match(s) == s >= 0

ensure_iso_ok(s) == ISO_match(s)

add_days(s, d) == s + d

days_from_conf(c) ==
    IF c <= 30 THEN 1 ELSE IF c <= 60 THEN 7 ELSE IF c <= 85 THEN 30 ELSE 90

\* The names bound at module level that the scheduling code may call.
ModuleNames == {"iso_now", "ensure_iso", "add_days", "days_from_conf",
                "redact_pii", "jhash"}

\* A call of a name that the module does not bind raises NameError.
NameBound(name) == name \in ModuleNames

\* ------------------------------------------------------------------- texts
\* str.strip() on the texts the model passes in.
Strip(t) ==
    CASE t = " s" -> "s"
      [] t = " c" -> "c"
      [] t = " p" -> "p"
      [] t = " "  -> ""
      [] OTHER    -> t

\* redact_pii on the texts the model passes in: of these only the e-mail
\* address matches one of PII_PATTERNS.
redact_pii(t) ==
    CASE t = "m@x.io" -> "<EMAIL>"
      [] OTHER        -> t

\* Code-point order of the tag texts, for sorted().  The tags stitch writes
\* begin with the section sign in the source and sort behind the letters.
TextRank(t) ==
    CASE t = "p" -> 1
      [] t = "q" -> 2
      [] t = "t" -> 4
      [] t = "u" -> 5
      [] t = "rule8" -> 6
      [] t = "rule88" -> 7
      [] t = "stitch" -> 8
      [] OTHER   -> 3

\* sorted(S) for a set of tag texts.
SortedTexts(S) ==
    CHOOSE s \in [1..Cardinality(S) -> S] :
        /\ \A i, j \in 1..Cardinality(S) : i < j => TextRank(s[i]) < TextRank(s[j])

\* sorted(set(t.strip() for t in tags if t.strip()))
NormTags(tags) ==
    SortedTexts({Strip(tags[i]) : i \in DOMAIN tags} \ {""})

\* A text holding a lone surrogate: json.loads decodes the escape \ud800 to
\* it, and neither str.encode("utf-8") nor a file opened with
\* encoding="utf-8" can encode it (UnicodeEncodeError).
Surrogate == "<ud800>"

\* The fields of a record that hold one text.
TextFields == {"title", "thought", "signal", "hypothesis", "counter"}

\* The record x holds a text that UTF-8 cannot encode.
Unencodable(x) == \E k \in DOMAIN x \cap TextFields : x[k] = Surrogate

\* jhash(key): the digest of the key text.  SHA-256 is taken as injective
\* on the texts of the model, so the digest is represented by the text hashed.
jhash(key) == key

\* ------------------------------------------------------------------- Jsonl
\* json.dumps(obj): the members of the object, one "key":value pair each.
json_dumps(obj) == {<<k, obj[k]>> : k \in DOMAIN obj}

\* json.loads(line): the object with those members.
json_loads(line) ==
    [k \in {p[1] : p \in line} |-> (CHOOSE p \in line : p[1] = k)[2]]

\* A non-blank line that is not JSON: json.loads raises JSONDecodeError on it.
BadLine == {<<"<not json>", "{">>}

\* Jsonl.read returns: json.loads accepts every line.
read_ok(file) == \A i \in DOMAIN file : \A p \in file[i] : p[1] # "<not json>"

\* Jsonl.read: every line decoded, in file order.
Read(file) == [i \in DOMAIN file |-> json_loads(file[i])]

\* Jsonl.write_all: the file replaced by the encoded items.
WriteAll(items) == [i \in DOMAIN items |-> json_dumps(items[i])]

\* Jsonl.write_all gets through its loop of f.write and reaches os.replace.
write_all_ok(items) == \A i \in DOMAIN items : ~Unencodable(items[i])

\* Jsonl.append: one encoded line added at the end.
JsonlAppend(file, obj) == Append(file, json_dumps(obj))

\* dict.get(key, default)
Get(x, k, default) == IF k \in DOMAIN x THEN x[k] ELSE default

\* x[key] = value on a dict.
SetKey(x, k, v) == [j \in DOMAIN x \cup {k} |-> IF j = k THEN v ELSE x[j]]

\* -------------------------------------------------------------- validation
\* A JSON value that is neither text nor null: a number, a list, an object.
NonText == "<object>"

\* isinstance(v, str)
IsText(v) == v \notin {None, NonText}

\* Memory._v_arc: TRUE when it returns, FALSE when it raises.
v_arc(x) ==
    /\ {"id", "date", "title", "thought", "tags", "confidence", "next_review"} \subseteq DOMAIN x
    /\ x.id \in Int
    /\ ensure_iso_ok(x.date) /\ ensure_iso_ok(x.next_review)
    /\ IsText(x.title) /\ IsText(x.thought)
    /\ \A i \in DOMAIN x.tags : IsText(x.tags[i])
    /\ 0 <= x.confidence /\ x.confidence <= 100

\* Memory._v_sh: TRUE when it returns, FALSE when it raises.
v_sh(x) ==
    /\ {"id", "date", "signal", "hypothesis", "tags", "confidence", "review_after"} \subseteq DOMAIN x
    /\ x.id \in Int
    /\ ensure_iso_ok(x.date) /\ ensure_iso_ok(x.review_after)
    /\ IsText(x.signal) /\ IsText(x.hypothesis)
    /\ ("counter" \in DOMAIN x /\ x.counter # None) => IsText(x.counter)
    /\ \A i \in DOMAIN x.tags : IsText(x.tags[i])
    /\ 0 <= x.confidence /\ x.confidence <= 100

\* max of a non-empty set of integers.
Max(S) == CHOOSE m \in S : \A n \in S : n <= m

\* _next_id counting the items instead of taking their greatest id.
next_id_count(items) == Len(items) + 1

\* _next_id without its + 1.
next_id_max(items) ==
    IF items # <<>> THEN Max({Get(items[i], "id", 0) : i \in DOMAIN items}) ELSE 1

\* Memory._next_id
next_id(items) ==
    IF items # <<>> THEN Max({Get(items[i], "id", 0) : i \in DOMAIN items}) + 1 ELSE 1

\* --------------------------------------------------------------- the inputs
Signals == {"s", " s", "m@x.io"}

Hypotheses == {"h"}

Counters == {" c"}

TagLists == {<<"q", " p", "q", " ">>}

Confidences == {50, 70, 120}

Titles == {"a", "b"}

Thoughts == {"x"}

\* The arguments of compact: max_records from 0 up.
CompactSizes == 0..2

\* ------------------------------------------------------------------- calls
\* No call is being followed statement by statement.
Idle == [pc |-> "idle"]

Quiet ==
    /\ fsys = [none |-> TRUE]
    /\ wr = Idle
    /\ rd = Idle
    /\ cyc = Idle
    /\ outFiles = <<>>
    /\ last_active = <<>>
    /\ phase = "Transition"

\* What a call leaves for its caller: the value returned or the exception
\* raised, beside the argument it was given and the state it found.
Call(op, arg, status, ret) ==
    [op |-> op, arg |-> arg, status |-> status, ret |-> ret,
     pre |-> [arc |-> arcFile, sh |-> shFile, issued |-> issued,
              mmArchive |-> mmArchive, mmShadow |-> mmShadow, out |-> outFiles]]

\* The number of lines in all the logs together.
TotalLen == Len(arcFile) + Len(shFile) + Len(mmArchive) + Len(mmShadow)

\* Memory.add_archive.  The record is built up to line 114; line 115 calls
\* days_from_confidence, which the module does not define (it defines
\* days_from_conf), so the call raises NameError before validation and append.
AddArchive(title, thought, tags, confidence) ==
    LET items == Read(arcFile)
        obj   == [id |-> next_id(items), date |-> now,
                  title |-> redact_pii(Strip(title)),
                  thought |-> redact_pii(Strip(thought)),
                  tags |-> NormTags(tags), confidence |-> confidence,
                  next_review |-> add_days(now, days_from_conf(confidence))]
        arg   == [title |-> title, thought |-> thought, tags |-> tags,
                  confidence |-> confidence]
    IN  IF ~NameBound("days_from_confidence")
        THEN /\ last' = Call("add_archive", arg, "NameError", NoRet)
             /\ UNCHANGED <<arcFile, shFile, now, issued, mm, steps, outFiles, last_active, phase>>
        ELSE IF ~v_arc(obj)
        THEN /\ last' = Call("add_archive", arg, "ValueError", NoRet)
             /\ UNCHANGED <<arcFile, shFile, now, issued, mm, steps, outFiles, last_active, phase>>
        ELSE /\ TotalLen < MaxLen
             /\ arcFile' = JsonlAppend(arcFile, obj)
             /\ last' = Call("add_archive", arg, "ok", obj)
             /\ issued' = [issued EXCEPT !.archive = @ \cup {obj.id}]
             /\ UNCHANGED <<shFile, now, mm, steps, outFiles, last_active, phase>>

\* add_shadow without its call of _v_sh.
add_shadow_unchecked(signal, hypothesis, tags, confidence, counter) ==
    LET items == Read(shFile)
        obj   == [id |-> next_id(items), date |-> now,
                  signal |-> redact_pii(Strip(signal)),
                  hypothesis |-> redact_pii(Strip(hypothesis)),
                  counter |-> IF counter # None THEN redact_pii(Strip(counter)) ELSE None,
                  tags |-> NormTags(tags), confidence |-> confidence,
                  review_after |-> add_days(now, IF confidence >= 70 THEN 3 ELSE 7)]
    IN  /\ TotalLen < MaxLen
        /\ shFile' = JsonlAppend(shFile, obj)
        /\ last' = Call("add_shadow", NoRet, "ok", obj)
        /\ issued' = [issued EXCEPT !.shadow = @ \cup {obj.id}]
        /\ UNCHANGED <<arcFile, now, mm, steps, outFiles, last_active, phase>>

\* Memory.add_shadow with review_days left at its default.
AddShadow(signal, hypothesis, tags, confidence, counter) ==
    LET items == Read(shFile)
        review_days == IF confidence >= 70 THEN 3 ELSE 7
        obj   == [id |-> next_id(items), date |-> now,
                  signal |-> redact_pii(Strip(signal)),
                  hypothesis |-> redact_pii(Strip(hypothesis)),
                  counter |-> IF counter # None THEN redact_pii(Strip(counter)) ELSE None,
                  tags |-> NormTags(tags), confidence |-> confidence,
                  review_after |-> add_days(now, review_days)]
        arg   == [signal |-> signal, hypothesis |-> hypothesis, tags |-> tags,
                  confidence |-> confidence, counter |-> counter]
    IN  IF ~v_sh(obj)
        THEN /\ last' = Call("add_shadow", arg, "ValueError", NoRet)
             /\ UNCHANGED <<arcFile, shFile, now, issued, mm, steps, outFiles, last_active, phase>>
        ELSE /\ TotalLen < MaxLen
             /\ shFile' = JsonlAppend(shFile, obj)
             /\ last' = Call("add_shadow", arg, "ok", obj)
             /\ issued' = [issued EXCEPT !.shadow = @ \cup {obj.id}]
             /\ UNCHANGED <<arcFile, now, mm, steps, outFiles, last_active, phase>>

\* self.arc.write_all(arc2); self.sh.write_all(sh2); return ret -- the tail
\* of reindex, dedupe and upgrade.  A write_all that raises leaves its own
\* target as it was (the lines went to the .tmp file), and whatever the
\* write_all before it has replaced stays replaced.
WriteBoth(op, arc2, sh2, ret) ==
    IF ~write_all_ok(arc2)
    THEN /\ last' = Call(op, NoRet, "UnicodeEncodeError", NoRet)
         /\ UNCHANGED <<arcFile, shFile, now, issued, mm, steps, outFiles, last_active, phase>>
    ELSE IF ~write_all_ok(sh2)
    THEN /\ arcFile' = WriteAll(arc2)
         /\ last' = Call(op, NoRet, "UnicodeEncodeError", NoRet)
         /\ UNCHANGED <<shFile, now, issued, mm, steps, outFiles, last_active, phase>>
    ELSE /\ arcFile' = WriteAll(arc2)
         /\ shFile' = WriteAll(sh2)
         /\ last' = Call(op, NoRet, "ok", ret)
         /\ UNCHANGED <<now, issued, mm, steps, outFiles, last_active, phase>>

\* enumerate() left at its default start of 0.
RenumberFromZero(items) == [i \in DOMAIN items |-> SetKey(items[i], "id", i - 1)]

\* The loop of Memory.reindex: x["id"] = i over enumerate(items, start=1).
Renumber(items) == [i \in DOMAIN items |-> SetKey(items[i], "id", i)]

\* Memory.reindex: renumber and revalidate both logs, then rewrite both.
Reindex ==
    LET arc == Read(arcFile)
        sh  == Read(shFile)
        arc2 == Renumber(arc)
        sh2  == Renumber(sh)
    IN  IF ~read_ok(arcFile) \/ ~read_ok(shFile)
        THEN /\ last' = Call("reindex", NoRet, "JSONDecodeError", NoRet)
             /\ UNCHANGED <<arcFile, shFile, now, issued, mm, steps, outFiles, last_active, phase>>
        ELSE IF (\E i \in DOMAIN arc2 : ~v_arc(arc2[i])) \/ (\E i \in DOMAIN sh2 : ~v_sh(sh2[i]))
        THEN /\ last' = Call("reindex", NoRet, "ValueError", NoRet)
             /\ UNCHANGED <<arcFile, shFile, now, issued, mm, steps, outFiles, last_active, phase>>
        ELSE WriteBoth("reindex", arc2, sh2, [archive |-> Len(arc2), shadow |-> Len(sh2)])

\* uniq stopping at the first duplicate it drops: the rest is kept as it is.
uniq_one(items, keys) ==
    LET loop[i \in 0..Len(items)] ==
            IF i = 0 THEN [seen |-> {}, out |-> <<>>, dropped |-> FALSE]
            ELSE LET p == loop[i - 1]
                     h == jhash(keys[i])
                 IN  IF h \in p.seen /\ ~p.dropped
                     THEN [p EXCEPT !.dropped = TRUE]
                     ELSE [p EXCEPT !.seen = @ \cup {h}, !.out = Append(@, items[i])]
    IN  loop[Len(items)].out

\* uniq of Memory.dedupe, keys[i] being key(items[i]): the first item of
\* every digest, in order.
uniq(items, keys) ==
    LET loop[i \in 0..Len(items)] ==
            IF i = 0 THEN [seen |-> {}, out |-> <<>>]
            ELSE LET p == loop[i - 1]
                     h == jhash(keys[i])
                 IN  IF h \in p.seen THEN p
                     ELSE [seen |-> p.seen \cup {h}, out |-> Append(p.out, items[i])]
    IN  loop[Len(items)].out

\* The Archive key taken from the title alone.
arc_key_title(x) == Get(x, "title", "")

\* The key texts of Memory.dedupe.
arc_key(x) == Get(x, "title", "") \o "|" \o Get(x, "thought", "")

sh_key(x) == Get(x, "signal", "") \o "|" \o Get(x, "hypothesis", "")

\* dedupe with uniq_one in the place of uniq.
dedupe_one(arcF, shF) ==
    LET arc == Read(arcF)
        sh  == Read(shF)
        arc_u == uniq_one(arc, [i \in DOMAIN arc |-> arc_key(arc[i])])
        sh_u  == uniq_one(sh, [i \in DOMAIN sh |-> sh_key(sh[i])])
    IN  [arc |-> WriteAll(arc_u), sh |-> WriteAll(sh_u),
         ret |-> [archive_removed |-> Len(arc) - Len(arc_u),
                  shadow_removed |-> Len(sh) - Len(sh_u)]]

\* The body of Memory.dedupe on the two files it finds: the files it
\* writes and the counts it returns.
dedupe(arcF, shF) ==
    LET arc == Read(arcF)
        sh  == Read(shF)
        arc_u == uniq(arc, [i \in DOMAIN arc |-> arc_key(arc[i])])
        sh_u  == uniq(sh, [i \in DOMAIN sh |-> sh_key(sh[i])])
    IN  [arc |-> WriteAll(arc_u), sh |-> WriteAll(sh_u),
         ret |-> [archive_removed |-> Len(arc) - Len(arc_u),
                  shadow_removed |-> Len(sh) - Len(sh_u)]]

\* jhash raises on the key of x: s.encode("utf-8") meets a lone surrogate.
key_unencodable(x, fields) == \E k \in DOMAIN x \cap fields : x[k] = Surrogate

\* Memory.dedupe.  Both uniq calls hash every key before the first write_all.
Dedupe ==
    LET arc == Read(arcFile)
        sh  == Read(shFile)
        r   == dedupe(arcFile, shFile)
    IN  IF ~read_ok(arcFile) \/ ~read_ok(shFile)
        THEN /\ last' = Call("dedupe", NoRet, "JSONDecodeError", NoRet)
             /\ UNCHANGED <<arcFile, shFile, now, issued, mm, steps, outFiles, last_active, phase>>
        ELSE IF
           \/ \E i \in DOMAIN arc : key_unencodable(arc[i], {"title", "thought"})
           \/ \E i \in DOMAIN sh : key_unencodable(sh[i], {"signal", "hypothesis"})
        THEN /\ last' = Call("dedupe", NoRet, "UnicodeEncodeError", NoRet)
             /\ UNCHANGED <<arcFile, shFile, now, issued, mm, steps, outFiles, last_active, phase>>
        ELSE WriteBoth("dedupe", Read(r.arc), Read(r.sh), r.ret)

\* The sort key without the minus sign: least confident first.
compact_key_asc(x) == <<Get(x, "confidence", 0), x.date>>

\* The sort key of Memory.compact: (-confidence, date).
compact_key(x) == <<-Get(x, "confidence", 0), x.date>>

\* a < b for two such tuples, as Python compares them.
TupleLess(a, b) == a[1] < b[1] \/ (a[1] = b[1] /\ a[2] < b[2])

\* sorted(items, key), keys[i] being key(items[i]).  Python's sort is
\* stable: an item goes behind every item whose key is not greater.
sorted(items, keys) ==
    LET loop[i \in 0..Len(items)] ==
            IF i = 0 THEN <<>>
            ELSE LET s == loop[i - 1]
                     k == Cardinality({j \in DOMAIN s : ~TupleLess(keys[i], keys[s[j]])})
                 IN  SubSeq(s, 1, k) \o <<i>> \o SubSeq(s, k + 1, Len(s))
    IN  [k \in DOMAIN items |-> items[loop[Len(items)][k]]]

\* s[:n]
Take(s, n) == SubSeq(s, 1, IF n < Len(s) THEN n ELSE Len(s))

\* Memory.compact
Compact(max_records) ==
    LET arc == Read(arcFile)
    IN  IF ~read_ok(arcFile)
        THEN /\ last' = Call("compact", max_records, "JSONDecodeError", NoRet)
             /\ UNCHANGED <<arcFile, shFile, now, issued, mm, steps, outFiles, last_active, phase>>
        ELSE IF Len(arc) > max_records /\ (\E i \in DOMAIN arc : "date" \notin DOMAIN arc[i])
        THEN /\ last' = Call("compact", max_records, "KeyError", NoRet)
             /\ UNCHANGED <<arcFile, shFile, now, issued, mm, steps, outFiles, last_active, phase>>
        ELSE LET kept == IF Len(arc) > max_records
                         THEN Take(sorted(arc, [i \in DOMAIN arc |-> compact_key(arc[i])]), max_records)
                         ELSE arc
             IN  IF ~write_all_ok(kept)
                 THEN /\ last' = Call("compact", max_records, "UnicodeEncodeError", NoRet)
                      /\ UNCHANGED <<arcFile, shFile, now, issued, mm, steps, outFiles, last_active, phase>>
                 ELSE /\ arcFile' = WriteAll(kept)
                      /\ last' = Call("compact", max_records, "ok", [archive |-> Len(kept)])
                      /\ UNCHANGED <<shFile, now, issued, mm, steps, outFiles, last_active, phase>>

\* The schedule test of Memory.upgrade.
NeedsSchedule(it, field) == field \notin DOMAIN it \/ ~ISO_match(it[field])

\* Memory.upgrade.  An Archive record in need of a schedule reaches the call
\* of days_from_confidence (NameError); a Shadow record in need of one gets
\* its date plus 7 days.
Upgrade ==
    LET arc == Read(arcFile)
        sh  == Read(shFile)
        sh2 == [i \in DOMAIN sh |->
                   IF NeedsSchedule(sh[i], "review_after")
                   THEN SetKey(sh[i], "review_after", add_days(Get(sh[i], "date", BadIso), 7))
                   ELSE sh[i]]
        changed == Cardinality({i \in DOMAIN sh : NeedsSchedule(sh[i], "review_after")})
    IN  IF ~read_ok(arcFile) \/ ~read_ok(shFile)
        THEN /\ last' = Call("upgrade", NoRet, "JSONDecodeError", NoRet)
             /\ UNCHANGED <<arcFile, shFile, now, issued, mm, steps, outFiles, last_active, phase>>
        ELSE IF \E i \in DOMAIN arc : NeedsSchedule(arc[i], "next_review")
        THEN /\ last' = Call("upgrade", NoRet,
                             IF \E i \in DOMAIN arc :
                                    /\ NeedsSchedule(arc[i], "next_review")
                                    /\ "date" \notin DOMAIN arc[i]
                                    /\ \A j \in 1..(i - 1) : ~NeedsSchedule(arc[j], "next_review")
                             THEN "KeyError" ELSE "NameError", NoRet)
             /\ UNCHANGED <<arcFile, shFile, now, issued, mm, steps, outFiles, last_active, phase>>
        ELSE IF \E i \in DOMAIN sh :
                    /\ NeedsSchedule(sh[i], "review_after")
                    /\ ("date" \notin DOMAIN sh[i] \/ ~ensure_iso_ok(sh[i].date))
        THEN /\ last' = Call("upgrade", NoRet, "ValueError", NoRet)
             /\ UNCHANGED <<arcFile, shFile, now, issued, mm, steps, outFiles, last_active, phase>>
        ELSE WriteBoth("upgrade", arc, sh2, [changed |-> changed])

\* The clock advances.
Tick ==
    /\ now + 1 \in Days
    /\ now' = now + 1
    /\ UNCHANGED <<arcFile, shFile, last, issued, mm, steps, outFiles, last_active, phase>>

\* ----------------------------------------------------------- MemoryManager
\* The hex digits uuid4 may hand to _generate_id.
Uuids == {"a1b2c3", "d4e5f6"}

\* MemoryManager._generate_id: prefix, the time of the call, six hex digits.
generate_id(prefix, u) == prefix \o "_" \o ToString(now) \o "_" \o u

\* MemoryManager._default_next_review: a week from today.
default_next_review == now + 7

\* dict.setdefault(key, value)
SetDefault(x, k, v) == IF k \in DOMAIN x THEN x ELSE SetKey(x, k, v)

\* The test both validators make of every required field: present, a str, not empty.
RequiredOk(data, fields) ==
    \A f \in fields : f \in DOMAIN data /\ IsText(data[f]) /\ data[f] # ""

ArchiveRequired == {"title", "type", "content", "confidence"}

ShadowRequired == {"signal", "pattern", "hypothesis", "counter", "confidence"}

\* _validate_archive_entry assigning id and next_review whether or not the
\* caller brought them.
validate_archive_entry_assign(entry, u) ==
    LET d1 == SetDefault(entry, "evidence", <<>>)
        d2 == SetDefault(d1, "owner", "user")
        d3 == SetDefault(d2, "tags", <<>>)
        d4 == SetKey(d3, "id", generate_id("ARC", u))
    IN  SetKey(d4, "next_review", default_next_review)

\* MemoryManager._validate_archive_entry, past its raise: the normalized copy.
validate_archive_entry(entry, u) ==
    LET d1 == SetDefault(entry, "evidence", <<>>)
        d2 == SetDefault(d1, "owner", "user")
        d3 == SetDefault(d2, "tags", <<>>)
        d4 == IF "id" \notin DOMAIN d3 THEN SetKey(d3, "id", generate_id("ARC", u)) ELSE d3
    IN  SetDefault(d4, "next_review", default_next_review)

\* MemoryManager._validate_shadow_entry, past its raise: the normalized copy.
validate_shadow_entry(entry, u) ==
    LET d1 == IF "id" \notin DOMAIN entry THEN SetKey(entry, "id", generate_id("SHD", u)) ELSE entry
    IN  SetDefault(d1, "review_after", default_next_review)

\* MemoryManager._append_jsonl
append_jsonl(file, record) == Append(file, json_dumps(record))

\* MemoryManager._load_jsonl
load_jsonl(file) == [i \in DOMAIN file |-> json_loads(file[i])]

\* MemoryManager.append_archive
AppendArchive(entry, u) ==
    IF ~RequiredOk(entry, ArchiveRequired)
    THEN /\ last' = Call("append_archive", entry, "ValueError", NoRet)
         /\ UNCHANGED <<arcFile, shFile, now, issued, mm, steps, outFiles, last_active, phase>>
    ELSE LET data == validate_archive_entry(entry, u)
         IN  /\ TotalLen < MaxLen
             /\ mmArchive' = append_jsonl(mmArchive, data)
             /\ last' = Call("append_archive", entry, "ok", data)
             /\ UNCHANGED <<arcFile, shFile, now, issued, mmShadow, steps, outFiles, last_active, phase>>

\* append_shadow writing the entry before it validates it.
AppendShadowUnchecked(entry, u) ==
    LET data == validate_shadow_entry(entry, u)
    IN  /\ TotalLen < MaxLen
        /\ mmShadow' = append_jsonl(mmShadow, data)
        /\ last' = Call("append_shadow", entry,
                        IF RequiredOk(entry, ShadowRequired) THEN "ok" ELSE "ValueError",
                        IF RequiredOk(entry, ShadowRequired) THEN data ELSE NoRet)
        /\ UNCHANGED <<arcFile, shFile, now, issued, mmArchive, steps, outFiles, last_active, phase>>

\* MemoryManager.append_shadow
AppendShadow(entry, u) ==
    IF ~RequiredOk(entry, ShadowRequired)
    THEN /\ last' = Call("append_shadow", entry, "ValueError", NoRet)
         /\ UNCHANGED <<arcFile, shFile, now, issued, mm, steps, outFiles, last_active, phase>>
    ELSE LET data == validate_shadow_entry(entry, u)
         IN  /\ TotalLen < MaxLen
             /\ mmShadow' = append_jsonl(mmShadow, data)
             /\ last' = Call("append_shadow", entry, "ok", data)
             /\ UNCHANGED <<arcFile, shFile, now, issued, mmArchive, steps, outFiles, last_active, phase>>

\* The entries handed to append_archive: a minimal one, one bringing its own
\* id, one bringing tags and next_review, and three the validator rejects
\* (content missing, title empty, confidence not a str).
ArchiveEntry == [title |-> "T", type |-> "fact", content |-> "c", confidence |-> "mid"]

ArchiveEntries ==
    { ArchiveEntry,
      [title |-> "T", type |-> "fact", content |-> "c", confidence |-> "mid", id |-> "ARC_mine"],
      [title |-> "T", type |-> "question", content |-> "c", confidence |-> "high",
       tags |-> <<"t">>, next_review |-> 3],
      [title |-> "T", type |-> "fact", confidence |-> "mid"],
      [title |-> "", type |-> "fact", content |-> "c", confidence |-> "mid"],
      [title |-> "T", type |-> "fact", content |-> "c", confidence |-> None] }

\* The entries handed to append_shadow: a minimal one, one bringing its own
\* review_after, and two the validator rejects (counter missing, signal empty).
ShadowEntry ==
    [signal |-> "open", pattern |-> "p", hypothesis |-> "h", counter |-> "k", confidence |-> "mid"]

ShadowEntries ==
    { ShadowEntry,
      [signal |-> "open", pattern |-> "p", hypothesis |-> "h", counter |-> "k",
       confidence |-> "mid", review_after |-> 2],
      [signal |-> "open", pattern |-> "p", hypothesis |-> "h", confidence |-> "mid"],
      [signal |-> "", pattern |-> "p", hypothesis |-> "h", counter |-> "k", confidence |-> "mid"] }

AppendArchiveCall == \E e \in ArchiveEntries, u \in Uuids : AppendArchive(e, u)

AppendShadowCall == \E e \in ShadowEntries, u \in Uuids : AppendShadow(e, u)

AddArchiveCall ==
    \E t \in Titles, th \in Thoughts, tg \in TagLists, c \in Confidences :
        AddArchive(t, th, tg, c)

AddShadowCall ==
    \E s \in Signals, h \in Hypotheses, tg \in TagLists, c \in Confidences, k \in Counters :
        AddShadow(s, h, tg, c, k)

CompactCall == \E m \in CompactSizes : Compact(m)

NoCall == [op |-> "init", arg |-> NoRet, status |-> "ok", ret |-> NoRet,
           pre |-> [arc |-> <<>>, sh |-> <<>>, issued |-> [archive |-> {}, shadow |-> {}],
                    mmArchive |-> <<>>, mmShadow |-> <<>>, out |-> <<>>]]

\* Memory.__init__ on a fresh root: Jsonl creates both files empty.
Init ==
    /\ arcFile = <<>>
    /\ shFile = <<>>
    /\ now = 1
    /\ last = NoCall
    /\ issued = [archive |-> {}, shadow |-> {}]
    /\ mmArchive = <<>>
    /\ mmShadow = <<>>
    /\ Quiet

Next ==
    \/ AddArchiveCall
    \/ AddShadowCall
    \/ Reindex
    \/ Dedupe
    \/ CompactCall
    \/ Upgrade
    \/ Tick

Spec == Init /\ [][Next]_vars

\* The appends of both implementations, from empty logs.
NextAppend ==
    \/ AddArchiveCall
    \/ AddShadowCall
    \/ AppendArchiveCall
    \/ AppendShadowCall

SpecAppend == Init /\ [][NextAppend]_vars

\* ------------------------------------------------- logs found at construction
\* Jsonl.__init__ creates a log only when the path does not exist: a Memory
\* opened on an existing root works on the lines it finds there.
ArcRec(id, date, title, thought, confidence) ==
    [id |-> id, date |-> date, title |-> title, thought |-> thought, tags |-> <<>>,
     confidence |-> confidence, next_review |-> add_days(date, days_from_conf(confidence))]

ShRec(id, signal, confidence) ==
    [id |-> id, date |-> 1, signal |-> signal, hypothesis |-> "h", counter |-> None,
     tags |-> <<>>, confidence |-> confidence, review_after |-> 8]

\* Archive records on disk: well-formed ones (numbered by their day, the
\* sure thoughts "y" and the unsure ones "x"), one without date and one
\* without next_review.
ArcPool ==
    {ArcRec(d, d, t, IF c = 90 THEN "y" ELSE "x", c) :
        d \in {1, 2}, t \in {"a", "b"}, c \in {30, 90}}
    \cup {[id |-> 1, title |-> "a", thought |-> "x", tags |-> <<>>, confidence |-> 30,
           next_review |-> 2],
          [id |-> 2, date |-> 1, title |-> "b", thought |-> "x", tags |-> <<>>,
           confidence |-> 90]}

\* Shadow records on disk: well-formed ones and one without review_after.
ShPool ==
    {ShRec(i, s, 50) : i \in {1, 2}, s \in {"s", "t"}}
    \cup {[id |-> 1, date |-> 1, signal |-> "s", hypothesis |-> "h", counter |-> None,
           tags |-> <<>>, confidence |-> 90]}

\* The sequences over S of at most n items.
SeqsUpTo(S, n) == UNION {[1..k -> S] : k \in 0..n}

InitLogs ==
    /\ \E a \in SeqsUpTo(ArcPool, MaxInit), b \in SeqsUpTo(ShPool, MaxInit) :
           /\ Len(a) + Len(b) <= MaxInit
           /\ arcFile = WriteAll(a)
           /\ shFile = WriteAll(b)
    /\ now = 1
    /\ last = NoCall
    /\ issued = [archive |-> {}, shadow |-> {}]
    /\ mmArchive = <<>>
    /\ mmShadow = <<>>
    /\ Quiet

NextLogs ==
    \/ Reindex
    \/ Dedupe
    \/ CompactCall
    \/ Upgrade

SpecLogs == InitLogs /\ [][NextLogs]_vars

\* ------------------------------------------------ any lines in the log files
\* What a log file may hold when a Memory is opened on it: records, a
\* record lacking a field, a record whose text holds a lone surrogate
\* (written as the escape \ud800, which json.loads decodes), and a line
\* that is not JSON.
RawArcLines ==
    { json_dumps(ArcRec(3, 1, "a", "x", 30)),
      json_dumps(SetKey(ArcRec(4, 1, "a", "x", 90), "thought", Surrogate)),
      json_dumps([id |-> 1, title |-> "a", thought |-> "x", tags |-> <<>>,
                  confidence |-> 30, next_review |-> 2]),
      BadLine }

RawShLines ==
    { json_dumps(ShRec(5, "s", 50)),
      json_dumps(SetKey(ShRec(6, "s", 50), "counter", Surrogate)),
      json_dumps([id |-> 1, signal |-> "s", hypothesis |-> "h", counter |-> None,
                  tags |-> <<>>, confidence |-> 90]),
      BadLine }

InitRaw ==
    /\ \E a \in SeqsUpTo(RawArcLines, MaxInit), b \in SeqsUpTo(RawShLines, MaxInit) :
           /\ Len(a) + Len(b) <= MaxInit
           /\ arcFile = a
           /\ shFile = b
    /\ now = 1
    /\ last = NoCall
    /\ issued = [archive |-> {}, shadow |-> {}]
    /\ mmArchive = <<>>
    /\ mmShadow = <<>>
    /\ Quiet

\* The rewriting operations on such logs.
SpecRaw == InitRaw /\ [][NextLogs]_vars

\* ------------------------------------------------- write_all, step by step
\* Jsonl.path of the Archive log, within its directory.
LogPath == "main_archive.jsonl"

\* write_all opening the log itself for writing.
tmp_is_path(path) == path

\* tmp=self.path+".tmp"
tmp_of(path) == path \o ".tmp"

\* The files of the directory.  fsys.dir gives the file each existing name
\* refers to, fsys.data the lines of each file; a file that no name and no
\* open handle refers to is gone (no lines).  fsys.whole is the content last
\* handed to the log in full: what it held at first, then the items of
\* every write_all that reached os.replace.
Files == 1..4

Referenced(dir, fds) == {dir[n] : n \in DOMAIN dir} \cup fds

\* The lines of every file once the files nobody refers to are dropped.
Sweep(dir, data, fds) ==
    [f \in Files |-> IF f \in Referenced(dir, fds) THEN data[f] ELSE <<>>]

\* The handles the reader and the writer hold open.
Handles(w, r) ==
    (IF w.pc \in {"write", "close"} THEN {w.fd} ELSE {})
    \cup (IF r.pc = "read" THEN {r.fd} ELSE {})

\* A file no one refers to, for open(.., "w") on a name that does not exist.
NewFile == CHOOSE f \in Files : f \notin Referenced(fsys.dir, Handles(wr, rd))

\* What reading the log path from its first line to its last would give.
PathContent == fsys.data[fsys.dir[LogPath]]

\* The item lists handed to write_all, and the contents found in the log.
RewriteItems == SeqsUpTo({ArcRec(1, 1, "a", "x", 30), ArcRec(2, 1, "b", "y", 90)}, MaxInit)

\* write_all(items) is called: the rewrite that is followed, or the next one
\* after a writer that died.
W_Begin(items) ==
    /\ wr.pc \in {"idle", "crashed"}
    /\ wr' = [pc |-> "open", items |-> items, fd |-> 0, i |-> 0]
    /\ UNCHANGED <<arcFile, shFile, now, last, issued, mm, fsys, rd, cyc, outFiles, last_active, phase>>

\* with open(tmp,"w") as f: the name is created, or the file it names is
\* emptied.
W_Open ==
    /\ wr.pc = "open"
    /\ LET name == tmp_of(LogPath)
           f    == IF name \in DOMAIN fsys.dir THEN fsys.dir[name] ELSE NewFile
           dir2 == [n \in DOMAIN fsys.dir \cup {name} |->
                       IF n = name THEN f ELSE fsys.dir[n]]
       IN  /\ wr' = [wr EXCEPT !.pc = "write", !.fd = f]
           /\ fsys' = [fsys EXCEPT !.dir = dir2, !.data[f] = <<>>]
           /\ arcFile' = fsys'.data[fsys'.dir[LogPath]]
    /\ UNCHANGED <<shFile, now, last, issued, mm, rd, cyc, outFiles, last_active, phase>>

\* f.write(json.dumps(it)+"\n") for the next item.
W_Write ==
    /\ wr.pc = "write"
    /\ wr.i < Len(wr.items)
    /\ fsys' = [fsys EXCEPT !.data[wr.fd] = Append(@, json_dumps(wr.items[wr.i + 1]))]
    /\ wr' = [wr EXCEPT !.i = @ + 1]
    /\ arcFile' = fsys'.data[fsys'.dir[LogPath]]
    /\ UNCHANGED <<shFile, now, last, issued, mm, rd, cyc, outFiles, last_active, phase>>

\* The loop is over; the with block closes f.
W_Close ==
    /\ wr.pc = "write"
    /\ wr.i = Len(wr.items)
    /\ wr' = [wr EXCEPT !.pc = "replace"]
    /\ UNCHANGED <<arcFile, shFile, now, last, issued, mm, fsys, rd, cyc, outFiles, last_active, phase>>

\* os.replace(tmp,self.path): in one step the log path names the file the
\* tmp name named, and the tmp name is gone.
W_Replace ==
    /\ wr.pc = "replace"
    /\ LET name == tmp_of(LogPath)
           dir2 == [n \in (DOMAIN fsys.dir \ {name}) \cup {LogPath} |->
                       IF n = LogPath THEN fsys.dir[name] ELSE fsys.dir[n]]
           new  == WriteAll(wr.items)
       IN  /\ wr' = [wr EXCEPT !.pc = "done"]
           /\ fsys' = [dir |-> dir2,
                       data |-> Sweep(dir2, fsys.data, Handles(wr', rd)),
                       whole |-> new]
           /\ rd' = IF rd.pc = "read" THEN [rd EXCEPT !.whole = @ \cup {new}] ELSE rd
           /\ arcFile' = fsys'.data[fsys'.dir[LogPath]]
    /\ UNCHANGED <<shFile, now, last, issued, mm, cyc, outFiles, last_active, phase>>

\* The writing process dies where it stands; its handle is closed for it.
W_Crash ==
    /\ wr.pc \in {"open", "write", "replace"}
    /\ wr' = [wr EXCEPT !.pc = "crashed"]
    /\ fsys' = [fsys EXCEPT !.data = Sweep(fsys.dir, fsys.data, Handles(wr', rd))]
    /\ UNCHANGED <<arcFile, shFile, now, last, issued, mm, rd, cyc, outFiles, last_active, phase>>

\* Jsonl.read: with open(self.path,"r") as f.
R_Open ==
    /\ rd.pc \in {"idle", "done"}
    /\ rd' = [pc |-> "read", fd |-> fsys.dir[LogPath], out |-> <<>>,
              whole |-> {fsys.whole}]
    /\ UNCHANGED <<arcFile, shFile, now, last, issued, mm, fsys, wr, cyc, outFiles, last_active, phase>>

\* for ln in f: one more line of the open file.
R_Line ==
    /\ rd.pc = "read"
    /\ Len(rd.out) < Len(fsys.data[rd.fd])
    /\ rd' = [rd EXCEPT !.out = Append(@, fsys.data[rd.fd][Len(rd.out) + 1])]
    /\ UNCHANGED <<arcFile, shFile, now, last, issued, mm, fsys, wr, cyc, outFiles, last_active, phase>>

\* End of file: the with block closes f and read returns out.
R_Return ==
    /\ rd.pc = "read"
    /\ Len(rd.out) >= Len(fsys.data[rd.fd])
    /\ rd' = [rd EXCEPT !.pc = "done"]
    /\ fsys' = [fsys EXCEPT !.data = Sweep(fsys.dir, fsys.data, Handles(wr, rd'))]
    /\ UNCHANGED <<arcFile, shFile, now, last, issued, mm, wr, cyc, outFiles, last_active, phase>>

W_BeginCall == \E items \in RewriteItems : W_Begin(items)

\* The log holds some content; a .tmp file may be left from a write_all
\* that did not reach os.replace.
InitWriteAll ==
    /\ \E old \in RewriteItems, stale \in BOOLEAN :
           /\ arcFile = WriteAll(old)
           /\ fsys = [dir   |-> IF stale
                                THEN (LogPath :> 1) @@ (tmp_of(LogPath) :> 2)
                                ELSE (LogPath :> 1),
                      data  |-> [f \in Files |->
                                    IF f = 1 THEN WriteAll(old)
                                    ELSE IF f = 2 /\ stale
                                    THEN <<json_dumps(ArcRec(2, 1, "b", "y", 90))>>
                                    ELSE <<>>],
                      whole |-> WriteAll(old)]
    /\ shFile = <<>>
    /\ now = 1
    /\ last = NoCall
    /\ issued = [archive |-> {}, shadow |-> {}]
    /\ mmArchive = <<>>
    /\ mmShadow = <<>>
    /\ wr = Idle
    /\ rd = Idle
    /\ cyc = Idle
    /\ outFiles = <<>>
    /\ last_active = <<>>
    /\ phase = "Transition"

NextWriteAll ==
    \/ W_BeginCall
    \/ W_Open
    \/ W_Write
    \/ W_Close
    \/ W_Replace
    \/ W_Crash
    \/ R_Open
    \/ R_Line
    \/ R_Return

SpecWriteAll == InitWriteAll /\ [][NextWriteAll]_vars

\* ------------------------------------------------ add_shadow, step by step
\* The callers of add_shadow on one Shadow log, each a process of its own.
Callers == {"p", "q"}

\* The callers whose add_shadow has read the log and not yet appended.
InCycle == {c \in Callers : cyc.at[c].pc = "append"}

\* Lines 120-127 up to the validation: the log is read and the record built
\* from what was read.  A record _v_sh rejects ends the call here.
A_Read(c, signal, hypothesis, tags, confidence, counter) ==
    LET items == Read(shFile)
        review_days == IF confidence >= 70 THEN 3 ELSE 7
        obj   == [id |-> next_id(items), date |-> now,
                  signal |-> redact_pii(Strip(signal)),
                  hypothesis |-> redact_pii(Strip(hypothesis)),
                  counter |-> IF counter # None THEN redact_pii(Strip(counter)) ELSE None,
                  tags |-> NormTags(tags), confidence |-> confidence,
                  review_after |-> add_days(now, review_days)]
    IN  /\ cyc.at[c].pc = "idle"
        /\ Len(shFile) + Cardinality(InCycle) < MaxLen
        /\ cyc' = IF v_sh(obj)
                  THEN [at |-> [cyc.at EXCEPT ![c] = [pc |-> "append", obj |-> obj]],
                        overlapped |-> cyc.overlapped \/ InCycle # {}]
                  ELSE cyc
        /\ UNCHANGED <<arcFile, shFile, now, last, issued, mm, fsys, wr, rd, outFiles, last_active, phase>>

\* self.sh.append(obj); return obj
A_Append(c) ==
    /\ cyc.at[c].pc = "append"
    /\ shFile' = JsonlAppend(shFile, cyc.at[c].obj)
    /\ issued' = [issued EXCEPT !.shadow = @ \cup {cyc.at[c].obj.id}]
    /\ cyc' = [cyc EXCEPT !.at[c] = Idle]
    /\ UNCHANGED <<arcFile, now, last, mm, fsys, wr, rd, outFiles, last_active, phase>>

A_ReadCall ==
    \E c \in Callers, s \in Signals, h \in Hypotheses, tg \in TagLists,
       cf \in Confidences, k \in Counters :
        A_Read(c, s, h, tg, cf, k)

A_AppendCall == \E c \in Callers : A_Append(c)

InitCycles ==
    /\ arcFile = <<>>
    /\ shFile = <<>>
    /\ now = 1
    /\ last = NoCall
    /\ issued = [archive |-> {}, shadow |-> {}]
    /\ mmArchive = <<>>
    /\ mmShadow = <<>>
    /\ fsys = [none |-> TRUE]
    /\ wr = Idle
    /\ rd = Idle
    /\ cyc = [at |-> [c \in Callers |-> Idle], overlapped |-> FALSE]
    /\ outFiles = <<>>
    /\ last_active = <<>>
    /\ phase = "Transition"

NextCycles ==
    \/ A_ReadCall
    \/ A_AppendCall
    \/ Tick

SpecCycles == InitCycles /\ [][NextCycles]_vars

\* -------------------------------------------------------- Memory's queries
\* The characters of the key names and texts of the model, as json.dumps
\* writes them (None is written null); any other text of the model is one
\* character long.
Chars(t) ==
    CASE t = "id" -> <<"i", "d">>
      [] t = "date" -> <<"d", "a", "t", "e">>
      [] t = "title" -> <<"t", "i", "t", "l", "e">>
      [] t = "thought" -> <<"t", "h", "o", "u", "g", "h", "t">>
      [] t = "tags" -> <<"t", "a", "g", "s">>
      [] t = "confidence" -> <<"c", "o", "n", "f", "i", "d", "e", "n", "c", "e">>
      [] t = "next_review" -> <<"n", "e", "x", "t", "_", "r", "e", "v", "i", "e", "w">>
      [] t = "review_after" -> <<"r", "e", "v", "i", "e", "w", "_", "a", "f", "t", "e", "r">>
      [] t = "signal" -> <<"s", "i", "g", "n", "a", "l">>
      [] t = "hypothesis" -> <<"h", "y", "p", "o", "t", "h", "e", "s", "i", "s">>
      [] t = "counter" -> <<"c", "o", "u", "n", "t", "e", "r">>
      [] t = None -> <<"n", "u", "l", "l">>
      [] t = "zz" -> <<"z", "z">>
      [] t = "" -> <<>>
      [] OTHER -> <<t>>

\* str.lower() on such characters.
LowerChar(c) ==
    CASE c = "B" -> "b"
      [] c = "T" -> "t"
      [] c = "Z" -> "z"
      [] OTHER -> c

Lower(w) == [i \in DOMAIN w |-> LowerChar(w[i])]

\* t in w, for two strings given by their characters.
IsSubstring(t, w) ==
    \E i \in 0..(Len(w) - Len(t)) : SubSeq(w, i + 1, i + Len(t)) = t

\* The fields holding a timestamp: written "YYYY-MM-DDThh:mm:ssZ".
DateFields == {"date", "next_review", "review_after"}

\* The runs of letters in json.dumps of one value: a text gives its
\* characters, a timestamp the T and the Z between its digits, a list of
\* tags the characters of each, a number none.
ValueWords(k, v) ==
    IF k \in TextFields THEN {Chars(v)}
    ELSE IF k \in DateFields THEN (IF ISO_match(v) THEN {<<"T">>, <<"Z">>} ELSE {})
    ELSE IF k = "tags" THEN {Chars(v[i]) : i \in DOMAIN v}
    ELSE {}

\* The runs of letters in blob=json.dumps(x): key names and values, which
\* quotes, colons, commas and digits keep apart.
BlobWords(x) == UNION {{Chars(k)} \cup ValueWords(k, x[k]) : k \in DOMAIN x}

\* text.lower() in blob.lower(), for a text made of letters.
text_in_blob(text, x) ==
    \E w \in BlobWords(x) : IsSubstring(Lower(Chars(text)), Lower(w))

\* The elements of a list, as set(..) gives them.
SetOf(seq) == {seq[i] : i \in DOMAIN seq}

\* The tags filter of search asking for one of the tags instead of all.
tags_pass_any(tags, x) ==
    tags = <<>> \/ SetOf(tags) \cap SetOf(Get(x, "tags", <<>>)) # {}

\* Line 162: the record passes the tags filter (none when tags is None or []).
tags_pass(tags, x) ==
    tags = <<>> \/ SetOf(tags) \subseteq SetOf(Get(x, "tags", <<>>))

\* Lines 162-168: the loop of search keeps x.  min_conf is given as the set
\* of the values supplied: none for None, else one.
search_keeps(x, text, tags, min_conf) ==
    /\ tags_pass(tags, x)
    /\ \A m \in min_conf : ~(Get(x, "confidence", 0) < m)
    /\ (text # None /\ text # "") => text_in_blob(text, x)

\* The items of a list that an accumulating loop appends, in order.
Filter(items, pass) ==
    LET loop[i \in 0..Len(items)] ==
            IF i = 0 THEN <<>>
            ELSE IF pass[i] THEN Append(loop[i - 1], items[i]) ELSE loop[i - 1]
    IN  loop[Len(items)]

\* Memory.search
Search(kind, text, tags, min_conf) ==
    LET file  == IF kind = "archive" THEN arcFile ELSE shFile
        items == Read(file)
        res   == Filter(items, [i \in DOMAIN items |->
                                   search_keeps(items[i], text, tags, min_conf)])
        arg   == [kind |-> kind, text |-> text, tags |-> tags, min_conf |-> min_conf]
    IN  /\ last' = IF read_ok(file)
                   THEN Call("search", arg, "ok", res)
                   ELSE Call("search", arg, "JSONDecodeError", NoRet)
        /\ UNCHANGED <<arcFile, shFile, now, issued, mm, steps, outFiles, last_active, phase>>

\* The arguments of search.
SearchKinds == {"archive", "shadow"}

SearchTexts == {None, "", "B", "y"}

SearchTags == {<<>>, <<"p">>, <<"q", "p">>}

MinConfs == {{}, {50}}

SearchCall ==
    \E k \in SearchKinds, t \in SearchTexts, tg \in SearchTags, m \in MinConfs :
        Search(k, t, tg, m)

\* t for x in items for t in x.get("tags",[])
FlatTags(items) ==
    LET loop[i \in 0..Len(items)] ==
            IF i = 0 THEN <<>> ELSE loop[i - 1] \o Get(items[i], "tags", <<>>)
    IN  loop[Len(items)]

\* Counter(..).most_common(n): the distinct elements with their counts, the
\* most frequent first, elements of one count in the order they first came.
most_common(all, n) ==
    LET first == {i \in DOMAIN all : \A j \in 1..(i - 1) : all[j] # all[i]}
        elems == Filter(all, [i \in DOMAIN all |-> i \in first])
        count(t) == Cardinality({i \in DOMAIN all : all[i] = t})
        pairs == [i \in DOMAIN elems |-> <<elems[i], count(elems[i])>>]
    IN  Take(sorted(pairs, [i \in DOMAIN pairs |-> <<-pairs[i][2], 0>>]), n)

\* sum(..) of a list of numbers.
Sum(nums) ==
    LET loop[i \in 0..Len(nums)] == IF i = 0 THEN 0 ELSE loop[i - 1] + nums[i]
    IN  loop[Len(nums)]

\* Memory.stats.  avg_conf is the quotient sum/len, given by its two terms
\* (0.0 is 0/1).
Stats ==
    LET arc  == Read(arcFile)
        sh   == Read(shFile)
        conf == [i \in DOMAIN arc |-> Get(arc[i], "confidence", 0)]
        ret  == [archive |-> Len(arc), shadow |-> Len(sh),
                 top_tags |-> most_common(FlatTags(arc \o sh), 15),
                 avg_conf |-> IF conf # <<>> THEN <<Sum(conf), Len(conf)>> ELSE <<0, 1>>]
    IN  /\ last' = IF read_ok(arcFile) /\ read_ok(shFile)
                   THEN Call("stats", NoRet, "ok", ret)
                   ELSE Call("stats", NoRet, "JSONDecodeError", NoRet)
        /\ UNCHANGED <<arcFile, shFile, now, issued, mm, steps, outFiles, last_active, phase>>

\* The message of the ValueError _v_arc raises on x, "" when it returns.
arc_err(x) ==
    LET req == <<"id", "date", "title", "thought", "tags", "confidence", "next_review">>
        missing == {i \in DOMAIN req : req[i] \notin DOMAIN x}
    IN  IF missing # {}
        THEN "archive missing " \o req[CHOOSE i \in missing : \A j \in missing : i <= j]
        ELSE IF x.id \notin Int THEN "archive.id int"
        ELSE IF ~ensure_iso_ok(x.date) \/ ~ensure_iso_ok(x.next_review) THEN "Bad ISO"
        ELSE IF ~IsText(x.title) \/ ~IsText(x.thought) THEN "title/thought str"
        ELSE IF \E i \in DOMAIN x.tags : ~IsText(x.tags[i]) THEN "tags[] str"
        ELSE IF ~(0 <= x.confidence /\ x.confidence <= 100) THEN "confidence [0..1]"
        ELSE ""

\* The message of the ValueError _v_sh raises on x, "" when it returns.
sh_err(x) ==
    LET req == <<"id", "date", "signal", "hypothesis", "tags", "confidence", "review_after">>
        missing == {i \in DOMAIN req : req[i] \notin DOMAIN x}
    IN  IF missing # {}
        THEN "shadow missing " \o req[CHOOSE i \in missing : \A j \in missing : i <= j]
        ELSE IF x.id \notin Int THEN "shadow.id int"
        ELSE IF ~ensure_iso_ok(x.date) \/ ~ensure_iso_ok(x.review_after) THEN "Bad ISO"
        ELSE IF ~IsText(x.signal) \/ ~IsText(x.hypothesis) THEN "signal/hypothesis str"
        ELSE IF "counter" \in DOMAIN x /\ x.counter # None /\ ~IsText(x.counter)
        THEN "counter str|None"
        ELSE IF \E i \in DOMAIN x.tags : ~IsText(x.tags[i]) THEN "tags[] str"
        ELSE IF ~(0 <= x.confidence /\ x.confidence <= 100) THEN "confidence [0..1]"
        ELSE ""

\* The inner loop of validate over the items of one kind, errs[i] being the
\* message the validator of the kind raises on items[i]: the ids seen, the
\* problems appended and the records counted.
validate_kind(kind, items, errs) ==
    LET loop[i \in 0..Len(items)] ==
            IF i = 0 THEN [seen |-> {}, problems |-> <<>>, checked |-> 0]
            ELSE LET p   == loop[i - 1]
                     it  == items[i]
                     err == IF errs[i] # "" THEN errs[i]
                            ELSE IF it.id \in p.seen THEN "duplicate id" ELSE ""
                 IN  IF err # ""
                     THEN [p EXCEPT !.problems =
                               Append(@, [kind |-> kind, id |-> Get(it, "id", None),
                                          err |-> err, item |-> it])]
                     ELSE [p EXCEPT !.seen = @ \cup {it.id}, !.checked = @ + 1]
    IN  loop[Len(items)]

\* Memory.validate
Validate ==
    LET arc == Read(arcFile)
        sh  == Read(shFile)
        a   == validate_kind("archive", arc, [i \in DOMAIN arc |-> arc_err(arc[i])])
        b   == validate_kind("shadow", sh, [i \in DOMAIN sh |-> sh_err(sh[i])])
        problems == a.problems \o b.problems
        ret == [checked |-> a.checked + b.checked, ok |-> problems = <<>>,
                problems |-> problems]
    IN  /\ last' = IF read_ok(arcFile) /\ read_ok(shFile)
                   THEN Call("validate", NoRet, "ok", ret)
                   ELSE Call("validate", NoRet, "JSONDecodeError", NoRet)
        /\ UNCHANGED <<arcFile, shFile, now, issued, mm, steps, outFiles, last_active, phase>>

\* ------------------------------------------------- MemoryManager's queries
\* The paths a MemoryManager is constructed with (those of the module docstring).
ArchivePath == "memory/ARCHIVE/main_archive.jsonl"

ShadowPath == "memory/SHADOW/main_shadow.jsonl"

\* The loop of search_archive keeps rec.  A filter left at None, or given
\* as the empty string, does not filter.
search_archive_keeps(rec, tag, confidence, owner) ==
    /\ (tag # None /\ tag # "") => tag \in SetOf(Get(rec, "tags", <<>>))
    /\ (confidence # None /\ confidence # "") => Get(rec, "confidence", None) = confidence
    /\ (owner # None /\ owner # "") => Get(rec, "owner", None) = owner

\* The loop of search_shadow keeps rec.
search_shadow_keeps(rec, signal, confidence) ==
    /\ (signal # None /\ signal # "") => Get(rec, "signal", None) = signal
    /\ (confidence # None /\ confidence # "") => Get(rec, "confidence", None) = confidence

\* MemoryManager.search_archive
SearchArchive(tag, confidence, owner) ==
    LET records == load_jsonl(mmArchive)
        result  == Filter(records, [i \in DOMAIN records |->
                              search_archive_keeps(records[i], tag, confidence, owner)])
        arg     == [tag |-> tag, confidence |-> confidence, owner |-> owner]
    IN  /\ last' = IF read_ok(mmArchive)
                   THEN Call("search_archive", arg, "ok", result)
                   ELSE Call("search_archive", arg, "JSONDecodeError", NoRet)
        /\ UNCHANGED <<arcFile, shFile, now, issued, mm, steps, outFiles, last_active, phase>>

\* MemoryManager.search_shadow
SearchShadow(signal, confidence) ==
    LET records == load_jsonl(mmShadow)
        result  == Filter(records, [i \in DOMAIN records |->
                              search_shadow_keeps(records[i], signal, confidence)])
        arg     == [signal |-> signal, confidence |-> confidence]
    IN  /\ last' = IF read_ok(mmShadow)
                   THEN Call("search_shadow", arg, "ok", result)
                   ELSE Call("search_shadow", arg, "JSONDecodeError", NoRet)
        /\ UNCHANGED <<arcFile, shFile, now, issued, mm, steps, outFiles, last_active, phase>>

\* open(path, 'w') and json.dump(data, f, indent=2): the file at path holds
\* the one JSON document, spread over several lines none of which is a JSON
\* value by itself.
Document(data) == <<{<<"<not json>", data>>}>>

\* The files outside the logs once path has been written.
WriteOut(path, data) ==
    [n \in DOMAIN outFiles \cup {path} |-> IF n = path THEN Document(data) ELSE outFiles[n]]

\* sync writing its snapshot over the Archive log.
snapshot_path_log(target_dir) == ArchivePath

\* target_dir / f'memory_snapshot_{timestamp}.json'
snapshot_path(target_dir) ==
    target_dir \o "/memory_snapshot_" \o ToString(now) \o ".json"

\* MemoryManager.sync
Sync(backup_dir) ==
    LET target_dir == IF backup_dir # None /\ backup_dir # ""
                      THEN backup_dir ELSE "memory/ARCHIVE/backups"
        path == snapshot_path(target_dir)
        data == [archive |-> load_jsonl(mmArchive), shadow |-> load_jsonl(mmShadow)]
        ret  == [snapshot_path |-> path, archive_records |-> Len(data.archive),
                 shadow_records |-> Len(data.shadow), timestamp |-> now]
    IN  IF ~read_ok(mmArchive) \/ ~read_ok(mmShadow)
        THEN /\ last' = Call("sync", backup_dir, "JSONDecodeError", NoRet)
             /\ UNCHANGED <<arcFile, shFile, now, issued, mm, steps, outFiles, last_active, phase>>
        ELSE /\ last' = Call("sync", backup_dir, "ok", ret)
             /\ mmArchive' = IF path = ArchivePath THEN Document(data) ELSE mmArchive
             /\ mmShadow' = IF path = ShadowPath THEN Document(data) ELSE mmShadow
             /\ outFiles' = IF path \in {ArchivePath, ShadowPath}
                            THEN outFiles ELSE WriteOut(path, data)
             /\ UNCHANGED <<arcFile, shFile, now, issued, steps, last_active, phase>>

\* MemoryManager.export: both logs are loaded, then dest_path is opened for
\* writing, whatever file it names.
Export(dest_path) ==
    LET data == [archive |-> load_jsonl(mmArchive), shadow |-> load_jsonl(mmShadow)]
    IN  IF ~read_ok(mmArchive) \/ ~read_ok(mmShadow)
        THEN /\ last' = Call("export", dest_path, "JSONDecodeError", NoRet)
             /\ UNCHANGED <<arcFile, shFile, now, issued, mm, steps, outFiles, last_active, phase>>
        ELSE /\ last' = Call("export", dest_path, "ok", None)
             /\ mmArchive' = IF dest_path = ArchivePath THEN Document(data) ELSE mmArchive
             /\ mmShadow' = IF dest_path = ShadowPath THEN Document(data) ELSE mmShadow
             /\ outFiles' = IF dest_path \in {ArchivePath, ShadowPath}
                            THEN outFiles ELSE WriteOut(dest_path, data)
             /\ UNCHANGED <<arcFile, shFile, now, issued, steps, last_active, phase>>

\* MemoryManager.get_stats
GetStats ==
    LET ret == [archive |-> [total_records |-> Len(load_jsonl(mmArchive))],
                shadow |-> [total_records |-> Len(load_jsonl(mmShadow))]]
    IN  /\ last' = IF read_ok(mmArchive) /\ read_ok(mmShadow)
                   THEN Call("get_stats", NoRet, "ok", ret)
                   ELSE Call("get_stats", NoRet, "JSONDecodeError", NoRet)
        /\ UNCHANGED <<arcFile, shFile, now, issued, mm, steps, outFiles, last_active, phase>>

\* The arguments of the MemoryManager queries.
SearchTagArgs == {None, "t", "u"}

SearchConfidenceArgs == {None, "high"}

SearchOwnerArgs == {None, "me"}

SearchSignalArgs == {None, "open"}

BackupDirs == {None, "bk"}

ExportDests == {"out/export.json", ArchivePath, ShadowPath}

SearchArchiveCall ==
    \E t \in SearchTagArgs, c \in SearchConfidenceArgs, o \in SearchOwnerArgs :
        SearchArchive(t, c, o)

SearchShadowCall ==
    \E sg \in SearchSignalArgs, c \in SearchConfidenceArgs : SearchShadow(sg, c)

SyncCall == \E d \in BackupDirs : Sync(d)

ExportCall == \E d \in ExportDests : Export(d)

\* ------------------------------------------------------ the logs queried
\* Lines found in Memory's logs: records with tags, two Archive records
\* sharing the id 1, one of them without next_review, a Shadow record with
\* a malformed date and a confidence of 1.2, and a line that is not JSON.
QueryArcLines ==
    { json_dumps(SetKey(ArcRec(1, 1, "a", "x", 30), "tags", <<"p">>)),
      json_dumps(SetKey(ArcRec(2, 2, "b", "y", 90), "tags", <<"p", "q">>)),
      json_dumps(ArcRec(1, 1, "b", "x", 50)),
      json_dumps([id |-> 1, date |-> 1, title |-> "a", thought |-> "y", tags |-> <<"q">>,
                  confidence |-> 90]),
      BadLine }

QueryShLines ==
    { json_dumps(SetKey(ShRec(1, "s", 50), "tags", <<"q">>)),
      json_dumps(SetKey(ShRec(1, "t", 90), "tags", <<"p">>)),
      json_dumps([id |-> 2, date |-> 1, signal |-> "s", hypothesis |-> "h",
                  tags |-> <<>>, confidence |-> 30]),
      json_dumps([id |-> 3, date |-> BadIso, signal |-> "s", hypothesis |-> "h",
                  tags |-> <<>>, confidence |-> 120, review_after |-> 8]),
      BadLine }

\* The logs of the MemoryManager: records as append_archive and
\* append_shadow leave them, and one written by hand without owner and tags.
ManagedArchive ==
    << [id |-> "ARC_1", title |-> "T", type |-> "fact", content |-> "c",
        confidence |-> "mid", evidence |-> <<>>, owner |-> "user", tags |-> <<"t">>,
        next_review |-> 8],
       [id |-> "ARC_2", title |-> "T", type |-> "fact", content |-> "c",
        confidence |-> "high"],
       [id |-> "ARC_3", title |-> "U", type |-> "question", content |-> "c",
        confidence |-> "high", evidence |-> <<>>, owner |-> "me", tags |-> <<"u", "t">>,
        next_review |-> 8] >>

ManagedShadow ==
    << [id |-> "SHD_1", signal |-> "open", pattern |-> "p", hypothesis |-> "h",
        counter |-> "k", confidence |-> "mid", review_after |-> 8],
       [id |-> "SHD_2", signal |-> "shut", pattern |-> "p", hypothesis |-> "h",
        counter |-> "k", confidence |-> "high", review_after |-> 8] >>

InitQuery ==
    /\ \E a \in SeqsUpTo(QueryArcLines, MaxInit - 1), b \in SeqsUpTo(QueryShLines, MaxInit - 1) :
           /\ Len(a) + Len(b) <= MaxInit - 1
           /\ arcFile = a
           /\ shFile = b
    /\ now = 1
    /\ last = NoCall
    /\ issued = [archive |-> {}, shadow |-> {}]
    /\ mmArchive = WriteAll(ManagedArchive)
    /\ mmShadow = WriteAll(ManagedShadow)
    /\ Quiet
    /\ outFiles = <<>>
    /\ last_active = <<>>
    /\ phase = "Transition"

\* The searches of both implementations on such logs.
NextSearch ==
    \/ SearchCall
    \/ SearchArchiveCall
    \/ SearchShadowCall

SpecSearch == InitQuery /\ [][NextSearch]_vars

\* validate on such logs, before and after a reindex.
NextValidate ==
    \/ Validate
    \/ Reindex

SpecValidate == InitQuery /\ [][NextValidate]_vars

\* Pairs of Memory logs for the run of all the queries together.
QueryLogs ==
    LET a == [i \in 1..4 |-> CHOOSE l \in QueryArcLines :
                 l # BadLine /\ json_loads(l).confidence = <<30, 90, 50, 90>>[i]
                 /\ json_loads(l).thought = <<"x", "y", "x", "y">>[i]
                 /\ Len(json_loads(l).tags) = <<1, 2, 0, 1>>[i]]
        b == [i \in 1..3 |-> CHOOSE l \in QueryShLines :
                 l # BadLine /\ json_loads(l).confidence = <<50, 90, 30>>[i]]
    IN  { <<<<>>, <<>>>>,
          <<<<a[1], a[2], a[3]>>, <<b[1], b[2]>>>>,
          <<<<a[2], a[1]>>, <<b[2], b[1], b[3]>>>>,
          <<<<a[4], a[3]>>, <<>>>>,
          <<<<a[1], BadLine>>, <<b[1]>>>>,
          <<<<a[3]>>, <<BadLine>>>> }

InitAllQueries ==
    /\ \E logs \in QueryLogs :
           /\ arcFile = logs[1]
           /\ shFile = logs[2]
    /\ now = 1
    /\ last = NoCall
    /\ issued = [archive |-> {}, shadow |-> {}]
    /\ mmArchive = WriteAll(ManagedArchive)
    /\ mmShadow = WriteAll(ManagedShadow)
    /\ Quiet
    /\ outFiles = <<>>
    /\ last_active = <<>>
    /\ phase = "Transition"

NextQuery ==
    \/ SearchCall
    \/ Stats
    \/ Validate
    \/ SearchArchiveCall
    \/ SearchShadowCall
    \/ SyncCall
    \/ ExportCall
    \/ GetStats

SpecQuery == InitAllQueries /\ [][NextQuery]_vars

\* ------------------------------------------------------------------ stitch
\* The type texts stitch looks for and writes (Russian words in the source:
\* the words for decision, question and insight).
DecisionType == "decision"

QuestionType == "question"

InsightType == "insight"

\* records[-window:]
LastN(records, n) ==
    IF Len(records) <= n THEN records ELSE SubSeq(records, Len(records) - n + 1, Len(records))

\* ', '.join(tags)
JoinTexts(tags) ==
    LET loop[i \in 0..Len(tags)] ==
            IF i = 0 THEN ""
            ELSE IF i = 1 THEN tags[1]
            ELSE loop[i - 1] \o ", " \o tags[i]
    IN  loop[Len(tags)]

\* stitch going on whatever the window holds.
window_empty_never(recent) == FALSE

\* Line 190: if not recent_records
window_empty(recent) == recent = <<>>

\* stitch counting a question however many decisions there are.
shadow_wanted_any(questions, decisions) == Len(questions) > 0

\* Line 217: if questions and len(questions) >= len(decisions)
shadow_wanted(questions, decisions) ==
    Len(questions) > 0 /\ Len(questions) >= Len(decisions)

\* MemoryManager.stitch; u and u2 are the hex digits uuid4 gives the two
\* ids.  The number of insights in the log is kept below MaxLen.
Stitch(rule88, u, u2) ==
    LET window  == IF rule88 THEN 88 ELSE 8
        records == load_jsonl(mmArchive)
        recent  == LastN(records, window)
        summary == [rule |-> IF rule88 THEN "rule88" ELSE "rule8", window |-> window,
                    analysed |-> Len(recent), insights |-> <<>>]
        decisions == Filter(recent, [i \in DOMAIN recent |->
                                        Get(recent[i], "type", None) = DecisionType])
        questions == Filter(recent, [i \in DOMAIN recent |->
                                        Get(recent[i], "type", None) = QuestionType])
        tags == SortedTexts(SetOf(FlatTags(recent)))
        content == "analysed " \o ToString(Len(recent)) \o ": decisions "
                   \o ToString(Len(decisions)) \o ", questions "
                   \o ToString(Len(questions)) \o "."
                   \o (IF tags # <<>> THEN " tags: " \o JoinTexts(Take(tags, 5)) \o "." ELSE "")
        insight_entry == [title |-> "Stitch summary", type |-> InsightType,
                          content |-> content, confidence |-> "mid",
                          owner |-> "system.stitch",
                          tags |-> <<"stitch", IF rule88 THEN "rule88" ELSE "rule8">>]
        written_insight == validate_archive_entry(insight_entry, u)
        shadow_entry == [signal |-> "open_questions",
                         pattern |-> "questions (" \o ToString(Len(questions))
                                     \o ") not fewer than decisions ("
                                     \o ToString(Len(decisions)) \o ")",
                         hypothesis |-> "follow up", counter |-> "check the next series",
                         confidence |-> "mid"]
        written_shadow == validate_shadow_entry(shadow_entry, u2)
        summary2 == [rule |-> summary.rule, window |-> window, analysed |-> Len(recent),
                     insights |-> <<written_insight.id>>,
                     insight_entry |-> written_insight]
    IN  IF ~read_ok(mmArchive)
        THEN /\ last' = Call("stitch", rule88, "JSONDecodeError", NoRet)
             /\ UNCHANGED <<arcFile, shFile, now, issued, mm, steps, outFiles, last_active, phase>>
        ELSE IF window_empty(recent)
        THEN /\ last' = Call("stitch", rule88, "ok", summary)
             /\ UNCHANGED <<arcFile, shFile, now, issued, mm, steps, outFiles, last_active, phase>>
        ELSE /\ Cardinality({i \in DOMAIN records :
                                Get(records[i], "type", None) = InsightType}) < MaxLen - 1
             /\ mmArchive' = append_jsonl(mmArchive, written_insight)
             /\ IF shadow_wanted(questions, decisions)
                THEN /\ mmShadow' = append_jsonl(mmShadow, written_shadow)
                     /\ last' = Call("stitch", rule88, "ok",
                                     SetKey(summary2, "shadow_entry", written_shadow))
                ELSE /\ mmShadow' = mmShadow
                     /\ last' = Call("stitch", rule88, "ok", summary2)
             /\ UNCHANGED <<arcFile, shFile, now, issued, steps, outFiles, last_active, phase>>

StitchCall == \E r \in BOOLEAN, u \in Uuids, u2 \in Uuids : Stitch(r, u, u2)

\* An Archive record of the given type, as append_archive left it.
TypedRec(n, type, tags) ==
    [id |-> "ARC_" \o ToString(n), title |-> "T", type |-> type, content |-> "c",
     confidence |-> "mid", evidence |-> <<>>, owner |-> "user", tags |-> tags,
     next_review |-> 8]

\* Archive logs for stitch: every log of up to two records of the three
\* types, and the same behind enough older records to push some out of the
\* window of 8 (a question and a decision first, then facts).
StitchLogs ==
    LET types  == {DecisionType, QuestionType, "fact"}
        short  == UNION {[1..k -> types] : k \in 0..2}
        older  == <<QuestionType, QuestionType, DecisionType, "fact", "fact", "fact", "fact">>
        typed(ts) == [i \in DOMAIN ts |->
                         TypedRec(i, ts[i], IF ts[i] = "fact" THEN <<"u">> ELSE <<"t">>)]
    IN  {typed(ts) : ts \in short} \cup {typed(older \o ts) : ts \in short}

InitStitch ==
    /\ arcFile = <<>>
    /\ shFile = <<>>
    /\ now = 1
    /\ last = NoCall
    /\ issued = [archive |-> {}, shadow |-> {}]
    /\ \E log \in StitchLogs : mmArchive = WriteAll(log)
    /\ mmShadow = <<>>
    /\ Quiet
    /\ outFiles = <<>>
    /\ last_active = <<>>
    /\ phase = "Transition"

NextStitch ==
    \/ StitchCall
    \/ Tick

SpecStitch == InitStitch /\ [][NextStitch]_vars

\* -------------------------------------------------- logs for dedupe to thin
\* Pairs of logs found on disk: records that differ in both key fields but
\* give the same key text, records that are the same, records that differ.
DedupeLogs ==
    { <<<<ArcRec(1, 1, "a|b", "c", 30), ArcRec(2, 1, "a", "b|c", 30)>>, <<>>>>,
      <<<<>>, <<SetKey(ShRec(1, "s|h", 50), "hypothesis", "h"),
                SetKey(ShRec(2, "s", 50), "hypothesis", "h|h")>>>>,
      <<<<ArcRec(1, 1, "a", "x", 30), ArcRec(2, 1, "a", "x", 30)>>,
        <<ShRec(1, "s", 50), ShRec(2, "s", 50)>>>>,
      <<<<ArcRec(1, 1, "a", "x", 30), ArcRec(2, 1, "b", "x", 30)>>,
        <<ShRec(1, "s", 50), ShRec(2, "t", 50)>>>>,
      <<<<ArcRec(1, 1, "a", "x", 30)>>, <<>>>> }

InitDedupe ==
    /\ \E l \in DedupeLogs :
           /\ arcFile = WriteAll(l[1])
           /\ shFile = WriteAll(l[2])
    /\ now = 1
    /\ last = NoCall
    /\ issued = [archive |-> {}, shadow |-> {}]
    /\ mmArchive = <<>>
    /\ mmShadow = <<>>
    /\ Quiet

\* dedupe among the other operations on such logs.
NextDedupe ==
    \/ Dedupe
    \/ Reindex
    \/ CompactCall
    \/ AddShadowCall

SpecDedupe == InitDedupe /\ [][NextDedupe]_vars

\* ------------------------------------------------------- snapshots in time
\* A MemoryManager on empty logs: appends, snapshots, and the clock.
S_AppendArchiveCall == \E u \in Uuids : AppendArchive(ArchiveEntry, u)

S_AppendShadowCall == AppendShadow(ShadowEntry, "a1b2c3")

NextSync ==
    \/ S_AppendArchiveCall
    \/ S_AppendShadowCall
    \/ SyncCall
    \/ Tick

SpecSync == Init /\ [][NextSync]_vars

\* ------------------------------------------ the rewrites, statement by statement
\* What a rewriting operation of Memory computes from the two logs it has
\* read, before its first write_all: the exception it raises, or the items
\* it hands to the write_all of each log (compact writes the Archive only)
\* and the value it returns.
plan(op, max_records, arcF, shF) ==
    LET arc == Read(arcF)
        sh  == Read(shF)
        ok(arc2, sh2, both, ret) ==
            [status |-> "ok", arc2 |-> arc2, sh2 |-> sh2, both |-> both, ret |-> ret]
        raises(e) == [status |-> e, arc2 |-> <<>>, sh2 |-> <<>>, both |-> FALSE, ret |-> NoRet]
    IN  CASE op = "reindex" ->
               IF \/ \E i \in DOMAIN arc : ~v_arc(Renumber(arc)[i])
                  \/ \E i \in DOMAIN sh : ~v_sh(Renumber(sh)[i])
               THEN raises("ValueError")
               ELSE ok(Renumber(arc), Renumber(sh), TRUE,
                       [archive |-> Len(arc), shadow |-> Len(sh)])
          [] op = "dedupe" ->
               IF \/ \E i \in DOMAIN arc : key_unencodable(arc[i], {"title", "thought"})
                  \/ \E i \in DOMAIN sh : key_unencodable(sh[i], {"signal", "hypothesis"})
               THEN raises("UnicodeEncodeError")
               ELSE ok(Read(dedupe(arcF, shF).arc), Read(dedupe(arcF, shF).sh), TRUE,
                       dedupe(arcF, shF).ret)
          [] op = "compact" ->
               IF Len(arc) > max_records /\ (\E i \in DOMAIN arc : "date" \notin DOMAIN arc[i])
               THEN raises("KeyError")
               ELSE LET kept == IF Len(arc) > max_records
                                THEN Take(sorted(arc, [i \in DOMAIN arc |-> compact_key(arc[i])]),
                                          max_records)
                                ELSE arc
                    IN  ok(kept, <<>>, FALSE, [archive |-> Len(kept)])
          [] op = "upgrade" ->
               IF \E i \in DOMAIN arc : NeedsSchedule(arc[i], "next_review")
               THEN raises("NameError")
               ELSE IF \E i \in DOMAIN sh :
                           /\ NeedsSchedule(sh[i], "review_after")
                           /\ ("date" \notin DOMAIN sh[i] \/ ~ensure_iso_ok(sh[i].date))
               THEN raises("ValueError")
               ELSE ok(arc,
                       [i \in DOMAIN sh |->
                           IF NeedsSchedule(sh[i], "review_after")
                           THEN SetKey(sh[i], "review_after", add_days(sh[i].date, 7))
                           ELSE sh[i]],
                       TRUE,
                       [changed |-> Cardinality({i \in DOMAIN sh :
                                                    NeedsSchedule(sh[i], "review_after")})])

\* The rewriting operations of Memory.
Rewrites == {"reindex", "dedupe", "compact", "upgrade"}

\* The rewrite in progress, if any.
Rewriting == wr.pc \in {"m_read_sh", "m_write_arc", "m_write_sh"}

\* arc=self.arc.read(): the first statement of the four operations.
M_ReadArc(op, max_records) ==
    /\ wr.pc = "idle"
    /\ IF ~read_ok(arcFile)
       THEN /\ last' = Call(op, NoRet, "JSONDecodeError", NoRet)
            /\ wr' = Idle
       ELSE /\ wr' = [pc |-> IF op = "compact" THEN "m_write_arc" ELSE "m_read_sh",
                      op |-> op, max_records |-> max_records,
                      arcRead |-> arcFile, shRead |-> <<>>, arcBefore |-> <<>>,
                      new |-> plan(op, 0, <<>>, <<>>)]
            /\ last' = last
    /\ UNCHANGED <<arcFile, shFile, now, issued, mm, fsys, rd, cyc, outFiles, last_active, phase>>

\* sh=self.sh.read()
M_ReadSh ==
    /\ wr.pc = "m_read_sh"
    /\ IF ~read_ok(shFile)
       THEN /\ last' = Call(wr.op, NoRet, "JSONDecodeError", NoRet)
            /\ wr' = Idle
       ELSE /\ wr' = [wr EXCEPT !.pc = "m_write_arc", !.shRead = shFile]
            /\ last' = last
    /\ UNCHANGED <<arcFile, shFile, now, issued, mm, fsys, rd, cyc, outFiles, last_active, phase>>

\* The statements up to self.arc.write_all(..) and that call: the items are
\* computed from what was read, whatever the logs hold by now.
M_WriteArc ==
    /\ wr.pc = "m_write_arc"
    /\ LET new == plan(wr.op, wr.max_records, wr.arcRead, wr.shRead)
           seen == [max_records |-> wr.max_records, arcRead |-> wr.arcRead,
                    shRead |-> wr.shRead, arcBefore |-> arcFile]
       IN  IF new.status # "ok"
           THEN /\ last' = Call(wr.op, seen, new.status, NoRet)
                /\ wr' = Idle
                /\ UNCHANGED arcFile
           ELSE IF ~write_all_ok(new.arc2)
           THEN /\ last' = Call(wr.op, seen, "UnicodeEncodeError", NoRet)
                /\ wr' = Idle
                /\ UNCHANGED arcFile
           ELSE /\ arcFile' = WriteAll(new.arc2)
                /\ IF new.both
                   THEN /\ wr' = [wr EXCEPT !.pc = "m_write_sh", !.new = new,
                                             !.arcBefore = arcFile]
                        /\ last' = last
                   ELSE /\ wr' = Idle
                        /\ last' = Call(wr.op, seen, "ok", new.ret)
    /\ UNCHANGED <<shFile, now, issued, mm, fsys, rd, cyc, outFiles, last_active, phase>>

\* self.sh.write_all(..) of items computed from the Shadow log as it is now.
M_WriteShFresh ==
    /\ wr.pc = "m_write_sh"
    /\ shFile' = WriteAll(plan(wr.op, wr.max_records, wr.arcRead, shFile).sh2)
    /\ last' = Call(wr.op, [max_records |-> wr.max_records, arcRead |-> wr.arcRead,
                            shRead |-> wr.shRead, arcBefore |-> wr.arcBefore],
                    "ok", wr.new.ret)
    /\ wr' = Idle
    /\ UNCHANGED <<arcFile, now, issued, mm, fsys, rd, cyc, outFiles, last_active, phase>>

\* self.sh.write_all(..) and the return.
M_WriteSh ==
    /\ wr.pc = "m_write_sh"
    /\ LET seen == [max_records |-> wr.max_records, arcRead |-> wr.arcRead,
                    shRead |-> wr.shRead, arcBefore |-> wr.arcBefore]
       IN  IF ~write_all_ok(wr.new.sh2)
           THEN /\ last' = Call(wr.op, seen, "UnicodeEncodeError", NoRet)
                /\ UNCHANGED shFile
           ELSE /\ shFile' = WriteAll(wr.new.sh2)
                /\ last' = Call(wr.op, seen, "ok", wr.new.ret)
    /\ wr' = Idle
    /\ UNCHANGED <<arcFile, now, issued, mm, fsys, rd, cyc, outFiles, last_active, phase>>

\* The process dies between two statements of the operation.
M_Crash ==
    /\ Rewriting
    /\ wr' = [wr EXCEPT !.pc = "m_crashed"]
    /\ UNCHANGED <<arcFile, shFile, now, last, issued, mm, fsys, rd, cyc, outFiles, last_active, phase>>

M_ReadArcCall == \E op \in Rewrites, m \in CompactSizes : M_ReadArc(op, m)

\* The appends of another caller while an operation is between two of its
\* statements, or when none is.
M_AddArchiveCall == AddArchive("a", "x", <<"p">>, 50)

M_AddShadowCall == \E s \in {"s", "t"} : AddShadow(s, "h", <<"p">>, 50, None)

\* Pairs of logs found on disk: empty ones, ones whose ids reindex changes,
\* ones holding a record twice, an Archive for compact to cut, a Shadow
\* record for upgrade to schedule.
RewriteLogs ==
    { <<<<>>, <<>>>>,
      <<<<ArcRec(2, 2, "a", "x", 30)>>, <<ShRec(2, "s", 50)>>>>,
      <<<<ArcRec(1, 1, "a", "x", 30), ArcRec(1, 1, "a", "x", 30)>>,
        <<ShRec(1, "s", 50), ShRec(1, "s", 50)>>>>,
      <<<<>>, <<ShRec(1, "s", 50), ShRec(1, "s", 50)>>>>,
      <<<<ArcRec(1, 1, "a", "x", 30), ArcRec(2, 2, "b", "y", 90)>>, <<>>>>,
      <<<<>>, <<[id |-> 1, date |-> 1, signal |-> "s", hypothesis |-> "h",
                 counter |-> None, tags |-> <<>>, confidence |-> 90]>>>> }

InitRewrite ==
    /\ \E l \in RewriteLogs :
           /\ arcFile = WriteAll(l[1])
           /\ shFile = WriteAll(l[2])
    /\ now = 1
    /\ last = NoCall
    /\ issued = [archive |-> {}, shadow |-> {}]
    /\ mmArchive = <<>>
    /\ mmShadow = <<>>
    /\ Quiet

NextRewrite ==
    \/ M_ReadArcCall
    \/ M_ReadSh
    \/ M_WriteArc
    \/ M_WriteSh
    \/ M_Crash
    \/ M_AddArchiveCall
    \/ M_AddShadowCall

SpecRewrite == InitRewrite /\ [][NextRewrite]_vars

\* ------------------------------------------------------------ PII_PATTERNS
\* redact_pii on a text given by its characters (ASCII), each pattern by the
\* match the regular expression engine finds from a start position.
Digit == {"0", "1", "2", "3", "4", "5", "6", "7", "8", "9"}

Upper ==
    {"A", "B", "C", "D", "E", "F", "G", "H", "I", "J", "K", "L", "M"} \cup
    {"N", "O", "P", "Q", "R", "S", "T", "U", "V", "W", "X", "Y", "Z"}

LowerCase ==
    {"a", "b", "c", "d", "e", "f", "g", "h", "i", "j", "k", "l", "m"} \cup
    {"n", "o", "p", "q", "r", "s", "t", "u", "v", "w", "x", "y", "z"}

Letter == Upper \cup LowerCase

\* \w
WordCh == Letter \cup Digit \cup {"_"}

\* The character at position i, "" outside the text.
At(text, i) == IF i \in 1..Len(text) THEN text[i] ELSE ""

\* \b before position i.
Boundary(text, i) == (At(text, i - 1) \in WordCh) # (At(text, i) \in WordCh)

\* The last position of the longest run of characters of S from position i,
\* i - 1 when the character at i is not in S.
RECURSIVE RunEnd(_, _, _)
RunEnd(text, i, S) == IF At(text, i) \in S THEN RunEnd(text, i + 1, S) ELSE i - 1

\* (?i)\b[A-Z0-9._%+-]+@[A-Z0-9.-]+\.[A-Z]{2,}\b from position i: the end
\* of the match, 0 for none.  The local part runs up to the @; the domain is
\* taken as long as possible, so the dot is the last one that two letters
\* or more and a \b follow.
EmailEnd(text, i) ==
    LET k    == RunEnd(text, i, Letter \cup Digit \cup {".", "_", "%", "+", "-"}) + 1
        e    == RunEnd(text, k + 1, Letter \cup Digit \cup {".", "-"})
        tld(p) == RunEnd(text, p + 1, Letter)
        dots == {p \in (k + 2)..e : /\ text[p] = "."
                                    /\ tld(p) >= p + 2
                                    /\ Boundary(text, tld(p) + 1)}
    IN  IF Boundary(text, i) /\ k > i /\ At(text, k) = "@" /\ dots # {}
        THEN tld(CHOOSE p \in dots : \A q \in dots : q <= p)
        ELSE 0

\* (?<!\d)(\+?\d[\d \-()]{7,}\d)(?!\d) from position i: the match ends on
\* the last digit of the run.
PhoneEnd(text, i) ==
    LET s  == IF At(text, i) = "+" THEN i + 1 ELSE i
        e  == RunEnd(text, s + 1, Digit \cup {" ", "-", "(", ")"})
        ds == {d \in (s + 1)..e : text[d] \in Digit /\ d - s - 1 >= 7}
    IN  IF At(text, i - 1) \notin Digit /\ At(text, s) \in Digit /\ ds # {}
        THEN CHOOSE d \in ds : \A c \in ds : c <= d
        ELSE 0

\* (?:\d[ -]?){13,19}\b with n groups matched and position pos next: the
\* engine tries one group more before it stops, and in a group the separator
\* before none.
RECURSIVE CardTry(_, _, _)
CardTry(text, pos, n) ==
    LET withSep == IF n < 19 /\ At(text, pos) \in Digit /\ At(text, pos + 1) \in {" ", "-"}
                   THEN CardTry(text, pos + 2, n + 1) ELSE 0
        without == IF n < 19 /\ At(text, pos) \in Digit
                   THEN CardTry(text, pos + 1, n + 1) ELSE 0
    IN  IF withSep # 0 THEN withSep
        ELSE IF without # 0 THEN without
        ELSE IF n >= 13 /\ Boundary(text, pos) THEN pos - 1
        ELSE 0

\* \b(?:\d[ -]?){13,19}\b from position i.
CardEnd(text, i) == IF Boundary(text, i) THEN CardTry(text, i, 0) ELSE 0

\* \b[A-Z]{2}\d{2}[A-Z0-9]{10,30}\b from position i.
IbanEnd(text, i) ==
    LET e == RunEnd(text, i + 4, Upper \cup Digit)
    IN  IF /\ Boundary(text, i)
           /\ At(text, i) \in Upper /\ At(text, i + 1) \in Upper
           /\ At(text, i + 2) \in Digit /\ At(text, i + 3) \in Digit
           /\ e - (i + 3) >= 10 /\ e - (i + 3) <= 30
           /\ Boundary(text, e + 1)
        THEN e
        ELSE 0

\* str.lower() on a letter.
ToLower(c) ==
    CASE c = "P" -> "p" [] c = "A" -> "a" [] c = "S" -> "s" [] c = "O" -> "o"
      [] c = "R" -> "r" [] c = "T" -> "t" [] OTHER -> c

\* (?i)\b(passport)[#: ]*\w+\b from position i; the texts are ASCII, so the
\* Cyrillic alternative of the pattern matches nowhere.
PassEnd(text, i) ==
    LET s == RunEnd(text, i + 8, {"#", ":", " "})
        w == RunEnd(text, s + 1, WordCh)
    IN  IF /\ Boundary(text, i)
           /\ i + 7 <= Len(text)
           /\ [j \in 1..8 |-> ToLower(text[i + j - 1])] = <<"p", "a", "s", "s", "p", "o", "r", "t">>
           /\ w >= s + 1
        THEN w
        ELSE 0

\* pat.sub(rep, text) from position pos on, ends[i] being the end of the
\* match of pat from position i: the leftmost match is replaced and the
\* search goes on behind it.
RECURSIVE SubFrom(_, _, _, _)
SubFrom(text, ends, rep, pos) ==
    IF pos > Len(text) THEN <<>>
    ELSE IF ends[pos] # 0 THEN rep \o SubFrom(text, ends, rep, ends[pos] + 1)
    ELSE <<text[pos]>> \o SubFrom(text, ends, rep, pos + 1)

\* The ends of the matches of the five patterns in PII_PATTERNS, in order.
PatternEnds(n, text) ==
    [i \in 1..Len(text) |->
        CASE n = 1 -> EmailEnd(text, i)
          [] n = 2 -> PhoneEnd(text, i)
          [] n = 3 -> CardEnd(text, i)
          [] n = 4 -> IbanEnd(text, i)
          [] n = 5 -> PassEnd(text, i)]

\* The replacements of PII_PATTERNS.
PatternRep(n) ==
    CASE n = 1 -> <<"<", "E", "M", "A", "I", "L", ">">>
      [] n = 2 -> <<"<", "P", "H", "O", "N", "E", ">">>
      [] n = 3 -> <<"<", "C", "A", "R", "D", ">">>
      [] n = 4 -> <<"<", "I", "B", "A", "N", "?", ">">>
      [] n = 5 -> <<"<", "P", "A", "S", "S", ">">>

\* pat.search(text) for pattern n.
pattern_search(n, text) == \E i \in 1..Len(text) : PatternEnds(n, text)[i] # 0

\* redact_pii: the loop over PII_PATTERNS, the first n patterns done.
RECURSIVE redact_upto(_, _)
redact_upto(n, text) ==
    IF n = 0 THEN text
    ELSE LET out == redact_upto(n - 1, text)
         IN  SubFrom(out, PatternEnds(n, out), PatternRep(n), 1)

\* redact_pii(text)
redact_pii_text(text) == redact_upto(5, text)

\* The texts given to redact_pii: up to MaxPieces pieces, one behind the
\* other.
MaxPieces == 3

Pieces ==
    { <<"a", "@", "b", ".", "c", "o">>,
      <<"1", "2", "3", "4", "5", "6", "7", "8", "9">>,
      <<"4", "1", "1", "1">>,
      <<"G", "B", "1", "2", "A", "B", "C", "D", "E", "F", "G", "H", "I", "J">>,
      <<"P", "a", "s", "s", "p", "o", "r", "t">>,
      <<" ">>, <<"x">> }

RECURSIVE TextsOf(_)
TextsOf(n) ==
    IF n = 0 THEN {<<>>}
    ELSE TextsOf(n - 1) \cup {t \o q : t \in TextsOf(n - 1), q \in Pieces}

Texts == TextsOf(MaxPieces)

\* redact_pii(text)
RedactPii(text) ==
    /\ last' = Call("redact_pii", text, "ok", redact_pii_text(text))
    /\ UNCHANGED <<arcFile, shFile, now, issued, mm, steps, outFiles, last_active, phase>>

\* The output of a call given to the next.
RedactAgain ==
    /\ last.op = "redact_pii"
    /\ last.ret # last.arg
    /\ RedactPii(last.ret)

RedactCall == \E t \in Texts : last.op = "init" /\ RedactPii(t)

InitRedact ==
    /\ arcFile = <<>>
    /\ shFile = <<>>
    /\ now = 1
    /\ last = NoCall
    /\ issued = [archive |-> {}, shadow |-> {}]
    /\ mmArchive = <<>>
    /\ mmShadow = <<>>
    /\ Quiet

NextRedact ==
    \/ RedactCall
    \/ RedactAgain

SpecRedact == InitRedact /\ [][NextRedact]_vars

\* --------------------------------------------------- FacetActivationEngine
\* THRESHOLDS, in the order of the dict: each facet with its conditions
\* (metric, min, max), the bounds in hundredths (1.01 is 101).
THRESHOLDS ==
    << [facet |-> "Kain",     cond |-> <<<<"pain", 70, 101>>>>],
       [facet |-> "Pino",     cond |-> <<<<"pain", 50, 70>>>>],
       [facet |-> "Sam",      cond |-> <<<<"clarity", 0, 70>>>>],
       [facet |-> "Anhantra", cond |-> <<<<"trust", 0, 75>>>>],
       [facet |-> "Huyndun",  cond |-> <<<<"chaos", 60, 101>>>>],
       [facet |-> "Iskriv",   cond |-> <<<<"drift", 30, 101>>>>],
       [facet |-> "Iskra",    cond |-> <<>>],
       [facet |-> "Maki",     cond |-> <<>>] >>

\* The facets ranked by their position in THRESHOLDS.
facet_order_declared(x) ==
    CASE x = "Kain" -> 0
      [] x = "Pino" -> 1
      [] x = "Sam" -> 2
      [] x = "Anhantra" -> 3
      [] x = "Huyndun" -> 4
      [] x = "Iskriv" -> 5
      [] x = "Iskra" -> 6
      [] x = "Maki" -> 7
      [] OTHER -> 99

\* order.get(x, 99)
facet_order(x) ==
    CASE x = "Anhantra" -> 0
      [] x = "Kain" -> 1
      [] x = "Sam" -> 2
      [] x = "Iskra" -> 3
      [] x = "Iskriv" -> 4
      [] x = "Pino" -> 5
      [] x = "Huyndun" -> 6
      [] x = "Maki" -> 7
      [] OTHER -> 99

\* The range test with its upper bound included.
in_range_closed(val, mn, mx) == mn <= val /\ val <= mx

\* if mn <= val < mx
in_range(val, mn, mx) == mn <= val /\ val < mx

\* The loop over cond.items() appends the facet: one of its conditions holds
\* of float(metrics.get(m, 0.0)).
facet_active(cond, metrics) ==
    \E i \in DOMAIN cond : in_range(Get(metrics, cond[i][1], 0), cond[i][2], cond[i][3])

\* The list select_facets returns for metrics: the facets appended in the
\* order of THRESHOLDS, then sorted by their priority.
select_facets(metrics) ==
    LET names  == [i \in DOMAIN THRESHOLDS |-> THRESHOLDS[i].facet]
        active == Filter(names, [i \in DOMAIN THRESHOLDS |->
                                    THRESHOLDS[i].cond # <<>>
                                    /\ facet_active(THRESHOLDS[i].cond, metrics)])
    IN  sorted(active, [i \in DOMAIN active |-> <<facet_order(active[i]), 0>>])

\* FacetActivationEngine.select_facets
SelectFacets(metrics, ctx) ==
    /\ last_active' = select_facets(metrics)
    /\ last' = Call("select_facets", [metrics |-> metrics, ctx |-> ctx], "ok",
                    select_facets(metrics))
    /\ UNCHANGED <<arcFile, shFile, now, issued, mm, steps, outFiles, phase>>

\* The metrics snapshots: each metric absent or at a value about the bounds
\* of the ranges.
MetricValues ==
    [pain |-> {50, 70, 101}, clarity |-> {69, 70}, trust |-> {75},
     chaos |-> {60, 101}, drift |-> {30}]

MetricsSnapshots ==
    UNION {{m \in [keys -> {50, 60, 69, 70, 75, 30, 101}] :
                \A k \in keys : m[k] \in MetricValues[k]} :
              keys \in SUBSET DOMAIN MetricValues}

Contexts == {[phase |-> "Clarity"], [phase |-> "Silence", state |-> "s"]}

SelectFacetsCall == \E m \in MetricsSnapshots, c \in Contexts : SelectFacets(m, c)

InitFacets ==
    /\ arcFile = <<>>
    /\ shFile = <<>>
    /\ now = 1
    /\ last = NoCall
    /\ issued = [archive |-> {}, shadow |-> {}]
    /\ mmArchive = <<>>
    /\ mmShadow = <<>>
    /\ Quiet

NextFacets == SelectFacetsCall

SpecFacets == InitFacets /\ [][NextFacets]_vars

\* ------------------------------------------------------------ PhaseManager
\* Phase, its eight names in English: Darkness, Transition, Clarity, Echo,
\* Silence, Experiment, Dissolution, Realization.
Phase ==
    {"Darkness", "Transition", "Clarity", "Echo", "Silence", "Experiment", "Dissolution",
     "Realization"}

\* The guards of step with their bounds included.
step_phase_at_least(metrics, self_phase) ==
    IF Get(metrics, "silence_mass", 0) >= 60 THEN "Silence"
    ELSE IF Get(metrics, "chaos", 0) >= 60 THEN "Transition"
    ELSE IF Get(metrics, "clarity", 0) >= 70 THEN "Clarity"
    ELSE self_phase

\* step with a fourth rule, which lands on Echo.
step_phase_with_echo(metrics, self_phase) ==
    IF Get(metrics, "silence_mass", 0) > 60 THEN "Silence"
    ELSE IF Get(metrics, "chaos", 0) > 60 THEN "Transition"
    ELSE IF Get(metrics, "clarity", 0) > 70 THEN "Clarity"
    ELSE IF Get(metrics, "pain", 0) > 70 THEN "Echo"
    ELSE self_phase

\* The phase step leaves in self.phase, the metrics in hundredths.
step_phase(metrics, self_phase) ==
    IF Get(metrics, "silence_mass", 0) > 60 THEN "Silence"
    ELSE IF Get(metrics, "chaos", 0) > 60 THEN "Transition"
    ELSE IF Get(metrics, "clarity", 0) > 70 THEN "Clarity"
    ELSE self_phase

\* PhaseManager.step
Step(metrics) ==
    /\ phase' = step_phase(metrics, phase)
    /\ last' = Call("step", [metrics |-> metrics, self_phase |-> phase], "ok",
                    step_phase(metrics, phase))
    /\ UNCHANGED <<arcFile, shFile, now, issued, mm, steps, outFiles, last_active>>

\* The snapshots given to step: each of its metrics absent, on its threshold
\* or next to it, and a metric step does not read.
StepValues ==
    [silence_mass |-> {60, 61}, chaos |-> {60, 61}, clarity |-> {60, 70, 71}, pain |-> {90}]

StepSnapshots ==
    UNION {{m \in [keys -> {60, 61, 70, 71, 90}] :
                \A k \in keys : m[k] \in StepValues[k]} :
              keys \in SUBSET DOMAIN StepValues}

StepCall == \E m \in StepSnapshots : Step(m)

\* PhaseManager(): the phase is Transition.
InitPhase ==
    /\ arcFile = <<>>
    /\ shFile = <<>>
    /\ now = 1
    /\ last = NoCall
    /\ issued = [archive |-> {}, shadow |-> {}]
    /\ mmArchive = <<>>
    /\ mmShadow = <<>>
    /\ Quiet

\* PhaseManager(phase): any phase.
InitPhaseAny ==
    /\ arcFile = <<>>
    /\ shFile = <<>>
    /\ now = 1
    /\ last = NoCall
    /\ issued = [archive |-> {}, shadow |-> {}]
    /\ mmArchive = <<>>
    /\ mmShadow = <<>>
    /\ fsys = [none |-> TRUE]
    /\ wr = Idle
    /\ rd = Idle
    /\ cyc = Idle
    /\ outFiles = <<>>
    /\ last_active = <<>>
    /\ phase \in Phase

NextPhase == StepCall

SpecPhase == InitPhase /\ [][NextPhase]_vars

SpecPhaseAny == InitPhaseAny /\ [][NextPhase]_vars

\* ------------------------------------------------------------------ claims
\* The ids of a sequence of records.
IdsOf(items) == {Get(items[i], "id", 0) : i \in DOMAIN items}

\* What the id of a new record is to be: 1 on an empty log, else the greatest id + 1.
ExpectedId(items) == IF IdsOf(items) = {} THEN 1 ELSE Max(IdsOf(items)) + 1

\* An input Memory.add_archive and add_shadow are to accept.
ValidAdd(arg) == 0 <= arg.confidence /\ arg.confidence <= 100

\* C1: add_archive and add_shadow give the new record the id max(ids of
\* that kind's log) + 1, or 1 on an empty log, each log numbered on its own.
C1_NewIdIsMaxPlusOne ==
    /\ (last.op = "add_archive" /\ ValidAdd(last.arg)) =>
           /\ last.status = "ok"
           /\ last.ret.id = ExpectedId(Read(last.pre.arc))
    /\ (last.op = "add_shadow" /\ ValidAdd(last.arg)) =>
           /\ last.status = "ok"
           /\ last.ret.id = ExpectedId(Read(last.pre.sh))

\* The ids of a log are pairwise distinct.
DistinctIds(file) ==
    \A i, j \in DOMAIN file : i # j => Read(file)[i].id # Read(file)[j].id

\* C2: from empty logs, after any sequence of add, reindex, dedupe, compact
\* and upgrade calls the ids within each log are pairwise distinct.
C2_IdsDistinct == DistinctIds(arcFile) /\ DistinctIds(shFile)

\* C2 witness: an add on a log that dedupe left with a gap in its ids.
C2_Witness ==
    /\ last.op = "add_shadow" /\ last.status = "ok"
    /\ IdsOf(Read(shFile)) = {1, 3, 4}

\* C3 as stated: the id an add returns is greater than every id an earlier
\* add on that log returned.
C3_NeverHandedOutTwice ==
    /\ (last.op = "add_archive" /\ last.status = "ok") =>
           \A i \in last.pre.issued.archive : last.ret.id > i
    /\ (last.op = "add_shadow" /\ last.status = "ok") =>
           \A i \in last.pre.issued.shadow : last.ret.id > i

\* C3 amended: the id an add returns is greater than the id of every record
\* the log holds at the time of the call.
C3_AboveEveryStoredId ==
    /\ (last.op = "add_archive" /\ last.status = "ok") =>
           \A i \in IdsOf(Read(last.pre.arc)) : last.ret.id > i
    /\ (last.op = "add_shadow" /\ last.status = "ok") =>
           \A i \in IdsOf(Read(last.pre.sh)) : last.ret.id > i

\* C3 witness: an add returns an id that an earlier add had returned, the
\* record that carried it having been removed since.
C3_Witness ==
    /\ last.op = "add_shadow" /\ last.status = "ok"
    /\ last.pre.sh # <<>>
    /\ last.ret.id \in last.pre.issued.shadow

\* The days the claim gives for each confidence tier.
TierDays(c) ==
    CASE c <= 30 -> 1
      [] c > 30 /\ c <= 60 -> 7
      [] c > 60 /\ c <= 85 -> 30
      [] OTHER -> 90

\* C6: for every valid input add_archive completes and persists a record
\* whose next_review is its date plus the days of its confidence tier, so
\* that next_review >= date for every persisted Archive record.
C6_ArchiveReviewByTier ==
    /\ (last.op = "add_archive" /\ ValidAdd(last.arg)) =>
           /\ last.status = "ok"
           /\ arcFile = Append(last.pre.arc, json_dumps(last.ret))
           /\ last.ret.next_review = last.ret.date + TierDays(last.arg.confidence)
    /\ \A i \in DOMAIN arcFile : Read(arcFile)[i].next_review >= Read(arcFile)[i].date

\* The candidate of an append fails validation: a confidence outside [0,1]
\* for Memory, a required field missing, empty or not a str for MemoryManager.
Rejected(op, arg) ==
    CASE op \in {"add_archive", "add_shadow"} ->
             arg.confidence < 0 \/ arg.confidence > 100
      [] op = "append_archive" ->
             \E f \in {"title", "type", "content", "confidence"} :
                 f \notin DOMAIN arg \/ arg[f] = None \/ arg[f] = ""
      [] op = "append_shadow" ->
             \E f \in {"signal", "pattern", "hypothesis", "counter", "confidence"} :
                 f \notin DOMAIN arg \/ arg[f] = None \/ arg[f] = ""
      [] OTHER -> FALSE

\* Every log file holds what the last call found in it.
LogsUntouched ==
    /\ arcFile = last.pre.arc /\ shFile = last.pre.sh
    /\ mmArchive = last.pre.mmArchive /\ mmShadow = last.pre.mmShadow

\* C4: an append whose candidate fails validation raises to its caller and
\* leaves every log as it found it, for Archive and Shadow alike.
C4_RejectedAppendWritesNothing ==
    Rejected(last.op, last.arg) =>
        /\ last.status # "ok"
        /\ last.op # "add_archive" => last.status = "ValueError"
        /\ LogsUntouched

\* C4 witness: append_shadow has rejected an entry while the logs hold records.
C4_Witness ==
    /\ last.op = "append_shadow" /\ last.status = "ValueError"
    /\ mmShadow # <<>> /\ shFile # <<>>

WithoutId(x) == [k \in DOMAIN x \ {"id"} |-> x[k]]

\* The ids of the new log are 1..N in file order and nothing else changed.
Renumbered(old, new) ==
    /\ Len(new) = Len(old)
    /\ \A i \in DOMAIN new : new[i].id = i /\ WithoutId(new[i]) = WithoutId(old[i])

\* C7: after a successful reindex the ids of each kind are 1..N in file
\* order, order and the other fields are as before, and the counts
\* returned are N per kind.
C7_ReindexNumbersInOrder ==
    (last.op = "reindex" /\ last.status = "ok") =>
        /\ Renumbered(Read(last.pre.arc), Read(arcFile))
        /\ Renumbered(Read(last.pre.sh), Read(shFile))
        /\ last.ret = [archive |-> Len(arcFile), shadow |-> Len(shFile)]

\* C7 witness: a reindex that changed ids in both logs.
C7_Witness ==
    /\ last.op = "reindex" /\ last.status = "ok"
    /\ Len(arcFile) >= 2
    /\ arcFile # last.pre.arc /\ shFile # last.pre.sh

\* C8: on every pair of logs a second dedupe leaves both logs as the first
\* left them and reports nothing removed.
C8_DedupeIdempotent ==
    LET once  == dedupe(arcFile, shFile)
        twice == dedupe(once.arc, once.sh)
    IN  /\ twice.arc = once.arc
        /\ twice.sh = once.sh
        /\ twice.ret = [archive_removed |-> 0, shadow_removed |-> 0]

\* C8 witness: a dedupe that removed two Archive records of one key.
C8_Witness ==
    /\ last.op = "dedupe" /\ last.status = "ok"
    /\ last.ret.archive_removed = 2

\* The content keys of the claim.
ArchiveKey(x) == Get(x, "title", "") \o "|" \o Get(x, "thought", "")

ShadowKey(x) == Get(x, "signal", "") \o "|" \o Get(x, "hypothesis", "")

\* The records of old that no earlier record of old shares its key with,
\* in order (keys[i] is the key of old[i]).
FirstOfEachKey(old, keys) ==
    LET keep[i \in 0..Len(old)] ==
            IF i = 0 THEN <<>>
            ELSE IF \E j \in 1..(i - 1) : keys[j] = keys[i]
                 THEN keep[i - 1]
                 ELSE Append(keep[i - 1], old[i])
    IN  keep[Len(old)]

\* The keys of a log of each kind.
ArchiveKeys(old) == [i \in DOMAIN old |-> ArchiveKey(old[i])]

ShadowKeys(old) == [i \in DOMAIN old |-> ShadowKey(old[i])]

\* C9: dedupe keeps the first record of every content key, removes the
\* later ones, keeps order and fields of the survivors, and returns the
\* numbers removed.
C9_DedupeKeepsFirst ==
    (last.op = "dedupe" /\ last.status = "ok") =>
        /\ Read(arcFile) = FirstOfEachKey(Read(last.pre.arc), ArchiveKeys(Read(last.pre.arc)))
        /\ Read(shFile) = FirstOfEachKey(Read(last.pre.sh), ShadowKeys(Read(last.pre.sh)))
        /\ last.ret = [archive_removed |-> Len(last.pre.arc) - Len(arcFile),
                       shadow_removed |-> Len(last.pre.sh) - Len(shFile)]

\* C9 witness: dedupe removed the third record, a duplicate of the first,
\* and kept the second.
C9_Witness ==
    /\ last.op = "dedupe" /\ last.status = "ok"
    /\ Len(last.pre.arc) = 3 /\ Len(arcFile) = 2
    /\ arcFile = SubSeq(last.pre.arc, 1, 2)
    /\ last.pre.arc[3] # last.pre.arc[1]

\* Record i of old ranks before record j: more confident, or as confident
\* and older, or level on both and earlier in the log.
RanksBefore(old, i, j) ==
    LET ci == Get(old[i], "confidence", 0)
        cj == Get(old[j], "confidence", 0)
    IN  \/ ci > cj
        \/ ci = cj /\ old[i].date < old[j].date
        \/ ci = cj /\ old[i].date = old[j].date /\ i < j

\* The first n records of old by rank.
TopRanked(old, n) ==
    [k \in 1..n |->
        old[CHOOSE i \in DOMAIN old :
                Cardinality({j \in DOMAIN old : RanksBefore(old, j, i)}) = k - 1]]

\* What compact is to leave of the log old when called with n.
Compacted(old, new, n) ==
    /\ Len(new) <= n
    /\ Len(old) > n => new = TopRanked(old, n)
    /\ Len(old) <= n => new = old

C11_RaiseBeforeAnyWrite ==
    (last.op \in {"reindex", "dedupe", "compact", "upgrade"} /\ last.status # "ok") =>
        /\ arcFile = last.pre.arc
        /\ shFile = last.pre.sh

\* C12: while write_all rewrites the log, the log path holds the complete
\* old content up to the rename and the complete new content from it on,
\* also when the writer dies on the way; and what a read of the path
\* returns is one of the contents the log held in full during the read.
C12_NeverPartlyRewritten ==
    /\ PathContent = fsys.whole
    /\ arcFile = PathContent
    /\ rd.pc = "done" => rd.out \in rd.whole
    /\ rd.pc = "read" =>
           \E c \in rd.whole : Len(rd.out) <= Len(c) /\ rd.out = SubSeq(c, 1, Len(rd.out))

\* C12 witness: a read that began before the rename and ended after it
\* returns the old content in full, the log now holding the new one.
C12_Witness ==
    /\ rd.pc = "done" /\ wr.pc = "done"
    /\ Cardinality(rd.whole) = 2
    /\ Len(rd.out) = 2 /\ Len(arcFile) = 2
    /\ rd.out # arcFile

\* C13: two add_shadow cycles on one log can leave two records with the
\* same id when one reads the log between the other's read and append; as
\* long as no cycle has begun inside another the ids of the log are distinct.
C13_DuplicateIdOnlyByOverlap ==
    ~DistinctIds(shFile) => cyc.overlapped

\* C13 witness: both callers read the log of one record, and both appended
\* a record with id 2.
C13_Witness ==
    /\ Len(shFile) = 3
    /\ InCycle = {}
    /\ Read(shFile)[2].id = 2 /\ Read(shFile)[3].id = 2
    /\ cyc.overlapped

\* The operations C14 lists.
Queries == {"search", "validate", "stats", "search_archive", "search_shadow",
            "sync", "export", "get_stats"}

\* C14 as stated: after search, validate, stats, search_archive,
\* search_shadow, sync, export and get_stats the Archive and Shadow log
\* files hold what they held before the call, whatever the call returns.
C14_QueriesLeaveLogs ==
    last.op \in Queries => LogsUntouched

\* C14 amended: the same, of an export only when dest_path names neither log.
C14_QueriesLeaveLogsUnlessExportedOnto ==
    (last.op \in Queries /\ ~(last.op = "export" /\ last.arg \in {ArchivePath, ShadowPath}))
        => LogsUntouched

\* C14 witness: export has written both logs to a file of its own.
C14_Witness ==
    /\ last.op = "export" /\ last.status = "ok"
    /\ last.arg \in DOMAIN outFiles
    /\ outFiles[last.arg] = Document([archive |-> ManagedArchive, shadow |-> ManagedShadow])
    /\ arcFile # <<>>

\* Record i of items has a problem in the words of C15: it fails the schema
\* of its kind (errs[i] is the validator's message, "" for none), or its id
\* is the id of an earlier record of the list.
HasProblem(items, errs, i) ==
    \/ errs[i] # ""
    \/ \E j \in 1..(i - 1) :
           /\ "id" \in DOMAIN items[i] /\ "id" \in DOMAIN items[j]
           /\ items[j].id = items[i].id

\* The problems list has an entry for record i, carrying its kind and id.
Reported(problems, kind, items, i) ==
    \E n \in DOMAIN problems :
        /\ problems[n].kind = kind
        /\ problems[n].item = items[i]
        /\ "id" \in DOMAIN items[i] => problems[n].id = items[i].id

\* C15: on logs whose lines decode, validate returns a result object; it
\* holds a problem entry for every record that fails its schema and for
\* every record whose id repeats that of an earlier record of its kind, and
\* ok is true exactly when no record has a problem.
C15_ValidateReportsEveryProblem ==
    (last.op = "validate" /\ read_ok(last.pre.arc) /\ read_ok(last.pre.sh)) =>
        LET arc  == Read(last.pre.arc)
            sh   == Read(last.pre.sh)
            aerr == [i \in DOMAIN arc |-> arc_err(arc[i])]
            serr == [i \in DOMAIN sh |-> sh_err(sh[i])]
        IN  /\ last.status = "ok"
            /\ \A i \in DOMAIN arc :
                   HasProblem(arc, aerr, i) => Reported(last.ret.problems, "archive", arc, i)
            /\ \A i \in DOMAIN sh :
                   HasProblem(sh, serr, i) => Reported(last.ret.problems, "shadow", sh, i)
            /\ last.ret.ok <=> ~ \/ \E i \in DOMAIN arc : HasProblem(arc, aerr, i)
                                 \/ \E i \in DOMAIN sh : HasProblem(sh, serr, i)

\* The schedule C16 gives a record in need of one: an Archive record its
\* date plus the days of its confidence tier, a Shadow record its date plus
\* 3 days when its confidence is at least 0.7 and plus 7 days otherwise.
ScheduleRule(kind, x) ==
    IF kind = "archive"
    THEN x.date + TierDays(Get(x, "confidence", 50))
    ELSE x.date + (IF Get(x, "confidence", 0) >= 70 THEN 3 ELSE 7)

\* new is old with the schedule field set by the rule on the records that
\* lacked a well-formed one, and nothing else changed.
Upgraded(kind, field, old, new) ==
    /\ Len(new) = Len(old)
    /\ \A i \in DOMAIN old :
           new[i] = IF NeedsSchedule(old[i], field)
                    THEN SetKey(old[i], field, ScheduleRule(kind, old[i]))
                    ELSE old[i]

\* Every record in need of a schedule has a well-formed date to count from.
Schedulable(items, field) ==
    \A i \in DOMAIN items :
        NeedsSchedule(items[i], field) =>
            "date" \in DOMAIN items[i] /\ ISO_match(items[i].date)

\* C16: upgrade gives a schedule to exactly the records whose next_review or
\* review_after is missing or malformed, by the rule of their kind, changes
\* nothing else and returns the number of records it changed.
C16_UpgradeSchedulesByRule ==
    LET arc == Read(last.pre.arc)
        sh  == Read(last.pre.sh)
    IN  (last.op = "upgrade" /\ Schedulable(arc, "next_review")
                            /\ Schedulable(sh, "review_after")) =>
            /\ last.status = "ok"
            /\ Upgraded("archive", "next_review", arc, Read(arcFile))
            /\ Upgraded("shadow", "review_after", sh, Read(shFile))
            /\ last.ret.changed =
                   Cardinality({i \in DOMAIN arc : NeedsSchedule(arc[i], "next_review")})
                   + Cardinality({i \in DOMAIN sh : NeedsSchedule(sh[i], "review_after")})

\* The records of the window of a stitch call that have the given type.
WindowCount(file, window, type) ==
    Cardinality({i \in DOMAIN LastN(Read(file), window) :
                    Get(LastN(Read(file), window)[i], "type", None) = type})

\* The stitch call found a non-empty window.
StitchedWindow == last.op = "stitch" /\ last.status = "ok" /\ last.pre.mmArchive # <<>>

\* The call added one Archive line, an insight whose id the summary
\* returns, and the given number of Shadow lines.
StitchAdded(shadowLines) ==
    /\ Len(mmArchive) = Len(last.pre.mmArchive) + 1
    /\ SubSeq(mmArchive, 1, Len(last.pre.mmArchive)) = last.pre.mmArchive
    /\ json_loads(mmArchive[Len(mmArchive)]).type = InsightType
    /\ last.ret.insights = <<json_loads(mmArchive[Len(mmArchive)]).id>>
    /\ Len(mmShadow) = Len(last.pre.mmShadow) + shadowLines
    /\ SubSeq(mmShadow, 1, Len(last.pre.mmShadow)) = last.pre.mmShadow

\* C17 as stated: on a non-empty window stitch appends one insight to the
\* Archive, and one Shadow record exactly when the questions of the window
\* are at least as many as its decisions.
C17_StitchShadowWhenQuestionsNotFewer ==
    StitchedWindow =>
        LET q == WindowCount(last.pre.mmArchive, last.ret.window, QuestionType)
            d == WindowCount(last.pre.mmArchive, last.ret.window, DecisionType)
        IN  StitchAdded(IF q >= d THEN 1 ELSE 0)

\* C17 amended: the Shadow record is appended exactly when the window holds
\* at least one question and its questions are at least as many as its
\* decisions.
C17_StitchShadowWhenSomeQuestionsNotFewer ==
    StitchedWindow =>
        LET q == WindowCount(last.pre.mmArchive, last.ret.window, QuestionType)
            d == WindowCount(last.pre.mmArchive, last.ret.window, DecisionType)
        IN  StitchAdded(IF q >= 1 /\ q >= d THEN 1 ELSE 0)

\* C17 witness: stitch(rule88=False) on a log of nine records whose window
\* of eight holds one question and one decision, the log holding two
\* questions: the insight and the Shadow record are written.
C17_Witness ==
    /\ StitchedWindow /\ last.ret.window = 8
    /\ Len(last.pre.mmArchive) = 9
    /\ WindowCount(last.pre.mmArchive, 8, QuestionType) = 1
    /\ WindowCount(last.pre.mmArchive, 8, DecisionType) = 1
    /\ WindowCount(last.pre.mmArchive, 88, QuestionType) = 2
    /\ "shadow_entry" \in DOMAIN last.ret
    /\ Len(mmShadow) = 1

\* C18: stitch on an empty Archive returns a summary with analysed = 0 and
\* no insights, and leaves both logs as they were.
C18_StitchOnEmptyWritesNothing ==
    (last.op = "stitch" /\ last.pre.mmArchive = <<>>) =>
        /\ last.status = "ok"
        /\ last.ret.analysed = 0
        /\ last.ret.insights = <<>>
        /\ LogsUntouched

\* C18 witness: stitch(rule88=True) has returned on an empty Archive.
C18_Witness ==
    /\ last.op = "stitch" /\ last.arg = TRUE
    /\ last.pre.mmArchive = <<>> /\ mmArchive = <<>> /\ mmShadow = <<>>
    /\ last.ret.window = 88

\* The items whose index is in keep, in the order of the list.
Chosen(items, keep) ==
    [k \in 1..Cardinality(keep) |->
        items[CHOOSE i \in keep : Cardinality({j \in keep : j < i}) = k - 1]]

\* A filter argument was supplied.
Supplied(v) == v # None /\ v # ""

\* The record satisfies every filter supplied to Memory.search: it carries
\* every tag asked for, its confidence reaches the threshold, and the text
\* occurs in it as serialized.
MatchesSearch(x, arg) ==
    /\ \A i \in DOMAIN arg.tags : \E j \in DOMAIN x.tags : x.tags[j] = arg.tags[i]
    /\ \A m \in arg.min_conf : x.confidence >= m
    /\ Supplied(arg.text) => text_in_blob(arg.text, x)

\* The record satisfies every filter supplied to search_archive.
MatchesArchiveSearch(x, arg) ==
    /\ Supplied(arg.tag) => "tags" \in DOMAIN x /\ \E j \in DOMAIN x.tags : x.tags[j] = arg.tag
    /\ Supplied(arg.confidence) => "confidence" \in DOMAIN x /\ x.confidence = arg.confidence
    /\ Supplied(arg.owner) => "owner" \in DOMAIN x /\ x.owner = arg.owner

\* The record satisfies every filter supplied to search_shadow.
MatchesShadowSearch(x, arg) ==
    /\ Supplied(arg.signal) => "signal" \in DOMAIN x /\ x.signal = arg.signal
    /\ Supplied(arg.confidence) => "confidence" \in DOMAIN x /\ x.confidence = arg.confidence

\* C19: each search returns exactly the records of its log that satisfy
\* every supplied filter, in log order, and every record when no filter is
\* supplied.
C19_SearchReturnsTheMatches ==
    /\ (last.op = "search" /\ last.status = "ok") =>
           LET items == Read(IF last.arg.kind = "archive" THEN last.pre.arc ELSE last.pre.sh)
           IN  /\ last.ret = Chosen(items, {i \in DOMAIN items : MatchesSearch(items[i], last.arg)})
               /\ (last.arg.tags = <<>> /\ last.arg.min_conf = {} /\ ~Supplied(last.arg.text))
                      => last.ret = items
    /\ (last.op = "search_archive" /\ last.status = "ok") =>
           LET items == Read(last.pre.mmArchive)
           IN  /\ last.ret = Chosen(items, {i \in DOMAIN items :
                                                MatchesArchiveSearch(items[i], last.arg)})
               /\ (\A k \in DOMAIN last.arg : ~Supplied(last.arg[k])) => last.ret = items
    /\ (last.op = "search_shadow" /\ last.status = "ok") =>
           LET items == Read(last.pre.mmShadow)
           IN  /\ last.ret = Chosen(items, {i \in DOMAIN items :
                                                MatchesShadowSearch(items[i], last.arg)})
               /\ (\A k \in DOMAIN last.arg : ~Supplied(last.arg[k])) => last.ret = items
    /\ (last.op \in {"search", "search_archive", "search_shadow"} /\ last.status # "ok") =>
           ~read_ok(IF last.op = "search_archive" THEN last.pre.mmArchive
                    ELSE IF last.op = "search_shadow" THEN last.pre.mmShadow
                    ELSE IF last.arg.kind = "archive" THEN last.pre.arc ELSE last.pre.sh)

\* C19 witness: a search of the Archive by two tags and a threshold returns
\* the second of two records, the first carrying one of the tags only.
C19_Witness ==
    /\ last.op = "search" /\ last.status = "ok" /\ last.arg.kind = "archive"
    /\ last.arg.tags = <<"q", "p">> /\ last.arg.min_conf = {50}
    /\ Len(last.pre.arc) = 2
    /\ last.ret = <<Read(last.pre.arc)[2]>>
    /\ Read(last.pre.arc)[1].tags = <<"p">>


\* A facet with a declared condition that holds of the snapshot, a metric the
\* snapshot lacks counting as 0.
ConditionMet(f, metrics) ==
    \E i \in DOMAIN THRESHOLDS :
        /\ THRESHOLDS[i].facet = f
        /\ \E j \in DOMAIN THRESHOLDS[i].cond :
               LET c == THRESHOLDS[i].cond[j]
                   v == IF c[1] \in DOMAIN metrics THEN metrics[c[1]] ELSE 0
               IN  c[2] <= v /\ v < c[3]

FacetNames == {THRESHOLDS[i].facet : i \in DOMAIN THRESHOLDS}

\* C20: select_facets returns exactly the facets that have a declared
\* condition (metric, [min, max)) with min <= value < max, a metric absent from
\* the snapshot counting as 0; Iskra and Maki, which have no condition, are
\* never returned; and the list is the one the same metrics give from a fresh
\* engine with any other context, whatever was called before.
C20_SelectFacetsByDeclaredRanges ==
    last.op = "select_facets" =>
        /\ SetOf(last.ret) = {f \in FacetNames : ConditionMet(f, last.arg.metrics)}
        /\ Len(last.ret) = Cardinality(SetOf(last.ret))
        /\ "Iskra" \notin SetOf(last.ret) /\ "Maki" \notin SetOf(last.ret)
        /\ \A m \in MetricsSnapshots :
               m = last.arg.metrics => last.ret = select_facets(m)
        /\ last_active = last.ret

\* C20 witness: a call whose pain is on the bound shared by Kain and Pino,
\* whose snapshot lacks trust and clarity, and which returns Kain, not Pino.
C20_Witness ==
    /\ last.op = "select_facets"
    /\ "pain" \in DOMAIN last.arg.metrics /\ last.arg.metrics.pain = 70
    /\ DOMAIN last.arg.metrics \cap {"trust", "clarity"} = {}
    /\ last.ret = <<"Anhantra", "Kain", "Sam">>
    /\ "state" \in DOMAIN last.arg.ctx


\* The fixed priority of the facets, first to last.
Priority == <<"Anhantra", "Kain", "Sam", "Iskra", "Iskriv", "Pino", "Huyndun", "Maki">>

PriorityOf(f) == CHOOSE i \in DOMAIN Priority : Priority[i] = f

PainInKainRange(metrics) ==
    "pain" \in DOMAIN metrics /\ 70 <= metrics.pain /\ metrics.pain < 101

\* C21: the list select_facets returns is in the fixed priority order
\* Anhantra, Kain, Sam, Iskra, Iskriv, Pino, Huyndun, Maki with no facet
\* twice; when pain lies in Kain's range the list contains Kain, begins with
\* Anhantra or Kain, and has Anhantra before Kain when both are in it.
C21_SelectFacetsInPriorityOrder ==
    last.op = "select_facets" =>
        /\ \A i \in DOMAIN last.ret : last.ret[i] \in SetOf(Priority)
        /\ \A i, j \in DOMAIN last.ret :
               i < j => PriorityOf(last.ret[i]) < PriorityOf(last.ret[j])
        /\ PainInKainRange(last.arg.metrics) =>
               /\ \E i \in DOMAIN last.ret : last.ret[i] = "Kain"
               /\ last.ret[1] \in {"Anhantra", "Kain"}
               /\ \A i, j \in DOMAIN last.ret :
                      last.ret[i] = "Anhantra" /\ last.ret[j] = "Kain" => i < j

\* C21 witness: a call with pain in Kain's range whose facets come back in an
\* order that is not the one THRESHOLDS declares them in.
C21_Witness ==
    /\ last.op = "select_facets"
    /\ PainInKainRange(last.arg.metrics)
    /\ last.ret = <<"Anhantra", "Kain", "Iskriv", "Huyndun">>


\* The first guard of step that holds of the snapshot, "" when none does: a
\* metric the snapshot lacks is not above its threshold.
Above(metrics, k, bound) == k \in DOMAIN metrics /\ metrics[k] > bound

FirstGuard(metrics) ==
    CASE Above(metrics, "silence_mass", 60) -> "Silence"
      [] ~Above(metrics, "silence_mass", 60) /\ Above(metrics, "chaos", 60) -> "Transition"
      [] ~Above(metrics, "silence_mass", 60) /\ ~Above(metrics, "chaos", 60)
             /\ Above(metrics, "clarity", 70) -> "Clarity"
      [] OTHER -> ""

\* C22: step sets the phase by the first guard that holds, in the order
\* silence_mass > 0.6 (Silence), chaos > 0.6 (Transition), clarity > 0.7
\* (Clarity), whatever the phase was; when no guard holds the phase stays as
\* it was; step returns the phase held after the call.
C22_StepFirstMatchingGuard ==
    last.op = "step" =>
        /\ FirstGuard(last.arg.metrics) # "" => phase = FirstGuard(last.arg.metrics)
        /\ FirstGuard(last.arg.metrics) = "" => phase = last.arg.self_phase
        /\ last.ret = phase

\* C22 witness: a step from Echo with silence_mass on its threshold and chaos
\* and clarity above theirs has entered Transition.
C22_Witness ==
    /\ last.op = "step"
    /\ last.arg.self_phase = "Echo"
    /\ DOMAIN last.arg.metrics = {"silence_mass", "chaos", "clarity"}
    /\ last.arg.metrics.silence_mass = 60
    /\ last.arg.metrics.chaos = 61
    /\ last.arg.metrics.clarity = 71
    /\ phase = "Transition"

\* C22 witness of the other case: a step that matched no guard left Echo.
C22_WitnessUnchanged ==
    /\ last.op = "step"
    /\ FirstGuard(last.arg.metrics) = ""
    /\ phase = "Echo"

\* C23: from the initial phase Transition, after any steps the phase is one
\* of Transition, Clarity and Silence.
C23_PhaseAmongThree == phase \in {"Transition", "Clarity", "Silence"}

\* C23 witness: the phase has been Clarity and a later step made it Silence.
C23_Witness ==
    /\ last.op = "step"
    /\ last.arg.self_phase = "Clarity"
    /\ phase = "Silence"


\* C24: from empty logs, in every state reached through add_archive,
\* add_shadow, reindex, dedupe, compact and upgrade, every line of either log
\* decodes to a record that passes the validation of its kind.
C24_PersistedRecordsValidate ==
    /\ read_ok(arcFile) /\ read_ok(shFile)
    /\ \A i \in DOMAIN arcFile : v_arc(Read(arcFile)[i])
    /\ \A i \in DOMAIN shFile : v_sh(Read(shFile)[i])

\* C24 witness: a maintenance operation has returned on a Shadow log of two
\* records, after appends that were accepted.
C24_Witness ==
    /\ last.op \in {"reindex", "dedupe", "compact", "upgrade"}
    /\ last.status = "ok"
    /\ Len(shFile) >= 2
    /\ issued.shadow # {}


\* C25: redact_pii is idempotent, redact_pii(redact_pii(text)) =
\* redact_pii(text), and its output is matched by none of the five patterns
\* of PII_PATTERNS.
C25_RedactIdempotentAndClean ==
    last.op = "redact_pii" =>
        /\ redact_pii_text(last.ret) = last.ret
        /\ \A n \in 1..5 : ~pattern_search(n, last.ret)


\* The Archive log holds what the operation in progress rewrote it to while
\* the Shadow log still holds what the operation read, each of the two
\* rewrites being a change.
HalfRewritten ==
    /\ wr.pc \in {"m_write_sh", "m_crashed"}
    /\ wr.op \in {"reindex", "dedupe"}
    /\ wr.new.status = "ok"
    /\ arcFile = WriteAll(wr.new.arc2) /\ arcFile # wr.arcRead
    /\ shFile = wr.shRead /\ shFile # WriteAll(wr.new.sh2)

\* C26: reindex and dedupe rewrite the two logs as a pair: at no point of
\* the operation, and after a crash at any point of it, is the Archive log
\* rewritten while the Shadow log is as it was.
C26_PairRewrittenTogether == ~HalfRewritten


\* A rewriting operation has just returned: no other has begun since.
Rewrote == last.op \in Rewrites /\ last.status = "ok" /\ wr.pc = "idle"

\* The lines appended to a log between the operation's read of it (read)
\* and its rename onto it (before being the log just before the rename).
Late(read, before) == SubSeq(before, Len(read) + 1, Len(before))

\* What the operation that returned makes of the logs it read.
Planned == plan(last.op, last.arg.max_records, last.arg.arcRead, last.arg.shRead)

\* Every record of the list old is in the list new, but for the fields the
\* operation sets.
KeptButFor(old, new, field) ==
    /\ Len(new) = Len(old)
    /\ \A i \in DOMAIN old :
           \A k \in DOMAIN old[i] \ {field} : k \in DOMAIN new[i] /\ new[i][k] = old[i][k]

\* Every record of old is in new, or a record of its key is.
KeptByKey(old, new, fields) ==
    \A i \in DOMAIN old : \E j \in DOMAIN new :
        \A k \in fields : Get(new[j], k, "") = Get(old[i], k, "")

\* C27: an append that commits between the read of a log and the rename of
\* a rewriting operation on it is lost: the log after the rename is made of
\* what was read alone and is shorter than it was before the rename, while
\* the append had returned; with no append in between, the operation loses
\* no record but by the rules of dedupe and compact.
C27_AppendDuringRewriteLost ==
    Rewrote =>
        /\ arcFile = WriteAll(Planned.arc2)
        /\ Late(last.arg.arcRead, last.arg.arcBefore) # <<>> =>
               Len(arcFile) < Len(last.arg.arcBefore)
        /\ last.op # "compact" =>
               /\ shFile = WriteAll(Planned.sh2)
               /\ Late(last.arg.shRead, last.pre.sh) # <<>> => Len(shFile) < Len(last.pre.sh)
               /\ Late(last.arg.shRead, last.pre.sh) = <<>> =>
                      CASE last.op = "reindex" ->
                             KeptButFor(Read(last.pre.sh), Read(shFile), "id")
                        [] last.op = "upgrade" ->
                             KeptButFor(Read(last.pre.sh), Read(shFile), "review_after")
                        [] last.op = "dedupe" ->
                             KeptByKey(Read(last.pre.sh), Read(shFile), {"signal", "hypothesis"})
        /\ last.op = "compact" => shFile = last.pre.sh

\* C27 witness: a reindex has returned, and the record an add_shadow added
\* to the Shadow log after the reindex had read it is not in the log.
C27_Witness ==
    /\ Rewrote /\ last.op = "reindex"
    /\ Len(last.pre.sh) = Len(last.arg.shRead) + 1
    /\ json_loads(last.pre.sh[Len(last.pre.sh)]).id \in issued.shadow
    /\ \A i \in DOMAIN shFile : shFile[i] # last.pre.sh[Len(last.pre.sh)]
    /\ \A i \in DOMAIN shFile : json_loads(shFile[i]).signal # "t"
    /\ json_loads(last.pre.sh[Len(last.pre.sh)]).signal = "t"

\* C27 witness of the other case: a dedupe that no append overlapped has
\* kept the record an add_shadow had added before.
C27_WitnessSerial ==
    /\ Rewrote /\ last.op = "dedupe"
    /\ last.pre.sh = last.arg.shRead
    /\ \E i \in DOMAIN shFile : json_loads(shFile[i]).signal = "t"


\* The schema rules of its kind that the record x breaks, each by the
\* message of its rule: a field missing, id not an integer, a malformed
\* timestamp, a text field that is no text, a counter that is neither text
\* nor null, tags that are not texts, a confidence outside [0, 1].
Violations(kind, x) ==
    LET texts == IF kind = "archive" THEN {"title", "thought"} ELSE {"signal", "hypothesis"}
        sched == IF kind = "archive" THEN "next_review" ELSE "review_after"
        req   == {"id", "date", "tags", "confidence", sched} \cup texts
        has(k) == k \in DOMAIN x
    IN  {"missing " \o k : k \in req \ DOMAIN x}
        \cup (IF has("id") /\ x.id \notin Int THEN {"id int"} ELSE {})
        \cup (IF \E k \in {"date", sched} : has(k) /\ ~ensure_iso_ok(x[k])
              THEN {"Bad ISO"} ELSE {})
        \cup (IF \E k \in texts : has(k) /\ ~IsText(x[k]) THEN {"text str"} ELSE {})
        \cup (IF kind = "shadow" /\ has("counter") /\ x.counter # None /\ ~IsText(x.counter)
              THEN {"counter str|None"} ELSE {})
        \cup (IF has("tags") /\ \E i \in DOMAIN x.tags : ~IsText(x.tags[i])
              THEN {"tags[] str"} ELSE {})
        \cup (IF has("confidence") /\ ~(0 <= x.confidence /\ x.confidence <= 100)
              THEN {"confidence [0..1]"} ELSE {})

\* The rule a message of the validators speaks of.
RuleOf(err) ==
    CASE err \in {"archive.id int", "shadow.id int"} -> "id int"
      [] err \in {"title/thought str", "signal/hypothesis str"} -> "text str"
      [] err \in {"archive missing " \o k : k \in {"id", "date", "title", "thought", "tags",
                                                    "confidence", "next_review"}} ->
             "missing " \o (CHOOSE k \in {"id", "date", "title", "thought", "tags",
                                          "confidence", "next_review"} :
                               err = "archive missing " \o k)
      [] err \in {"shadow missing " \o k : k \in {"id", "date", "signal", "hypothesis", "tags",
                                                   "confidence", "review_after"}} ->
             "missing " \o (CHOOSE k \in {"id", "date", "signal", "hypothesis", "tags",
                                          "confidence", "review_after"} :
                               err = "shadow missing " \o k)
      [] OTHER -> err

\* The problems list names the rule v for record i of the kind.
ReportedRule(problems, kind, items, i, v) ==
    \E n \in DOMAIN problems :
        /\ problems[n].kind = kind
        /\ problems[n].item = items[i]
        /\ RuleOf(problems[n].err) = v

\* All that is wrong with record i: the rules it breaks and, its id being
\* that of an earlier record, the repeated id.
AllProblems(kind, items, i) ==
    Violations(kind, items[i])
    \cup (IF \E j \in 1..(i - 1) :
                 "id" \in DOMAIN items[i] /\ "id" \in DOMAIN items[j]
                 /\ items[j].id = items[i].id
          THEN {"duplicate id"} ELSE {})

\* C28: validate collects every problem of every record: for a record that
\* breaks several rules at once, or breaks a rule and repeats an id, the
\* result names each of them.
C28_ValidateCollectsAllPerRecord ==
    (last.op = "validate" /\ last.status = "ok") =>
        LET arc == Read(last.pre.arc)
            sh  == Read(last.pre.sh)
        IN  /\ \A i \in DOMAIN arc : \A v \in AllProblems("archive", arc, i) :
                   ReportedRule(last.ret.problems, "archive", arc, i, v)
            /\ \A i \in DOMAIN sh : \A v \in AllProblems("shadow", sh, i) :
                   ReportedRule(last.ret.problems, "shadow", sh, i, v)


\* C29: every sync writes a snapshot file of its own that holds both logs
\* in full as they are at the call, with the record counts it returns, and
\* leaves every file written before as it was.
C29_SnapshotsWriteOnce ==
    (last.op = "sync" /\ last.status = "ok") =>
        /\ last.ret.snapshot_path \in DOMAIN outFiles
        /\ outFiles[last.ret.snapshot_path] =
               Document([archive |-> load_jsonl(last.pre.mmArchive),
                         shadow |-> load_jsonl(last.pre.mmShadow)])
        /\ last.ret.archive_records = Len(last.pre.mmArchive)
        /\ last.ret.shadow_records = Len(last.pre.mmShadow)
        /\ \A p \in DOMAIN last.pre.out :
               p \in DOMAIN outFiles /\ outFiles[p] = last.pre.out[p]


\* Record i of items has no earlier record with the same two key fields.
FirstOfItsFields(items, i, f, g) ==
    ~ \E j \in 1..(i - 1) : items[j][f] = items[i][f] /\ items[j][g] = items[i][g]

\* C30: dedupe removes an Archive record only if an earlier record has the
\* same title and the same thought, and a Shadow record only if an earlier
\* record has the same signal and the same hypothesis: a record with no such
\* earlier record is in the log afterwards.
C30_DedupeRemovesOnlySameFields ==
    (last.op = "dedupe" /\ last.status = "ok") =>
        LET arc == Read(last.pre.arc)
            sh  == Read(last.pre.sh)
        IN  /\ \A i \in DOMAIN arc :
                   FirstOfItsFields(arc, i, "title", "thought") =>
                       \E k \in DOMAIN arcFile : json_loads(arcFile[k]) = arc[i]
            /\ \A i \in DOMAIN sh :
                   FirstOfItsFields(sh, i, "signal", "hypothesis") =>
                       \E k \in DOMAIN shFile : json_loads(shFile[k]) = sh[i]

====
